---- MODULE Spec2Model ----
(***************************************************************************)
(* Combat core of Untale: the AttackManager round scheduler and its        *)
(* pattern library (combat/patterns.py), the projectiles (combat/bullet.py)*)
(* the dodge tick of Battle (core/engine.py) and the player's hit points   *)
(* and invulnerability (entities/player.py).                               *)
(*                                                                         *)
(* Units.  Rect coordinates are integers (pygame.Rect).  Float quantities  *)
(* (velocities, float positions of blades and wave bullets, radii) are     *)
(* kept in thousandths; angles in milliradians; difficulty in tenths.      *)
(* Assigning a float to a Rect field truncates it toward zero.             *)
(***************************************************************************)
EXTENDS Integers, Sequences, FiniteSets, TLC

(***************************************************************************)
(* Bounds of the model.                                                    *)
(***************************************************************************)
\* largest pattern count whose samples are enumerated in full
MaxCount == 1
\* ATTACK_DURATION / GAP_BETWEEN_ATTACKS of the scheduler specifications
ShortAttack == 4
ShortGap == 2
\* ATTACK_DURATION of the dodge specification (homing blades spawn at tick 90)
LongAttack == 92
\* the longest invulnerability window tried
MaxInvulnerability == 3

\* enemy turns followed in one battle of the frame specification
MaxTurns == 1

\* updates of one beam followed by the beam specification
MaxLaserUpdates == 48

\* the projectile specification: the farthest start from an edge of the kill
\* region, in pixels, and the updates followed from there
MaxEdgeDistance == 8
MaxProjectileUpdates == 3

\* ATTACK_DURATION of the line_rain specification (three spawns in a pattern)
RainAttack == 7

\* ATTACK_DURATION of the round that shows a blade from its spawn to its exit
BladeAttack == 140

\* ATTACK_DURATION of the laser_warning rounds (a beam finishes, a second one follows)
LaserAttack == 125

\* the most items the player picks up
MaxItems == 1

\* the most MainMenu.update calls counted by animation_timer
MaxAnimation == 4

(***************************************************************************)
(* core/settings.py is not part of the sources: its values are parameters. *)
(* The timing values live in cfg (fixed by Init of each specification),    *)
(* the others are the definitions below.                                   *)
(***************************************************************************)
VARIABLES
    cfg,      \* core.settings timing values
    am,       \* the AttackManager object (bullets_group is Battle.bullets)
    obs,      \* observation of the last call: operation, return value, patterns run
    battle,   \* the Battle object
    player    \* the Player object

vars == <<cfg, am, obs, battle, player>>

ATTACK_DURATION == cfg.ATTACK_DURATION
GAP_BETWEEN_ATTACKS == cfg.GAP_BETWEEN_ATTACKS
LINE_RAIN_INTERVAL == cfg.LINE_RAIN_INTERVAL
CIRCLE_BURST_INTERVAL == cfg.CIRCLE_BURST_INTERVAL
TARGETING_INTERVAL == cfg.TARGETING_INTERVAL
INVULNERABILITY_TIME == cfg.INVULNERABILITY_TIME

PATTERNS_PER_ROUND == 3
MOB_PATTERNS_PER_ROUND == 1
LINE_RAIN_BULLET_COUNT == 2
CIRCLE_BURST_COUNT == 4
TARGETING_BULLETS_PER_SHOT == 2
BULLET_BASE_SPEED == 4
BULLET_SPEED_MULT == 1
SCREEN_WIDTH == 640
SCREEN_HEIGHT == 480
BATTLE_BOX_WIDTH == 240
BATTLE_BOX_HEIGHT == 160
PLAYER_BATTLE_SIZE == 10
PLAYER_MAX_HP == 20

(***************************************************************************)
(* Arithmetic of the host language.                                        *)
(***************************************************************************)
Abs(a) == IF a < 0 THEN -a ELSE a

Max(a, b) == IF a >= b THEN a ELSE b

Min(a, b) == IF a <= b THEN a ELSE b

\* int(a / b), b > 0: truncation toward zero
TruncDiv(a, b) == IF a >= 0 THEN a \div b ELSE -((-a) \div b)

\* rect.x += v with v in thousandths: the Rect keeps int(x + v)
RectAdd(x, v) == TruncDiv(x * 1000 + v, 1000)

\* math.sqrt on integers, rounded down
Isqrt(n) == CHOOSE r \in 0..1000 : r * r <= n /\ (r + 1) * (r + 1) > n

\* cos of k * 15 degrees, in thousandths
CosQ == <<1000, 966, 866, 707, 500, 259, 0>>

Cos15(k) ==
    LET j == k % 24
    IN  IF j <= 6 THEN CosQ[j + 1]
        ELSE IF j <= 12 THEN -CosQ[12 - j + 1]
        ELSE IF j <= 18 THEN -CosQ[j - 12 + 1]
        ELSE CosQ[24 - j + 1]

\* math.cos / math.sin of an angle in milliradians, to the nearest 15 degrees
Cos(a) == Cos15((((a % 6283) * 24 + 3141) \div 6283) % 24)

Sin(a) == Cos(a - 1571)

PI == 3142

\* random.randint(lo, hi), random.uniform(lo, hi): the two ends of the range,
\* or the lower end alone where the specification narrows the draws
RandInt(lo, hi) == IF cfg.wide THEN {lo, hi} ELSE {lo}

\* random.randint(lo, hi), every value of the range where the draws are wide
RandIntAll(lo, hi) == IF cfg.wide THEN lo..hi ELSE {lo}

(***************************************************************************)
(* Battle.box_rect and the rectangles of pygame.                           *)
(***************************************************************************)
box_rect ==
    [left |-> (SCREEN_WIDTH - BATTLE_BOX_WIDTH) \div 2,
     top |-> (SCREEN_HEIGHT - BATTLE_BOX_HEIGHT) \div 2 - 40,
     width |-> BATTLE_BOX_WIDTH,
     height |-> BATTLE_BOX_HEIGHT]

Right(r) == r.left + r.width

Bottom(r) == r.top + r.height

CenterX(r) == r.left + r.width \div 2

CenterY(r) == r.top + r.height \div 2

\* the Rect of a sprite
RectOf(b) == [left |-> b.x, top |-> b.y, width |-> b.w, height |-> b.h]

\* pygame.Rect.contains
Contains(outer, inner) ==
    /\ outer.left <= inner.left
    /\ outer.top <= inner.top
    /\ Right(outer) >= Right(inner)
    /\ Bottom(outer) >= Bottom(inner)
    /\ Right(outer) > inner.left
    /\ Bottom(outer) > inner.top

\* pygame.Rect.colliderect
CollideRect(a, b) ==
    /\ a.left < Right(b)
    /\ b.left < Right(a)
    /\ a.top < Bottom(b)
    /\ b.top < Bottom(a)

(***************************************************************************)
(* Sprites.  id is the object's identity.  upd counts the calls of the     *)
(* sprite's update() within the current Battle.update, and old tells that  *)
(* the sprite was in the group when that Battle.update began.              *)
(***************************************************************************)
\* Projectile.__init__ followed by set_bounds
Projectile(kind, x, y, vx, vy, w, h) ==
    [kind |-> kind, id |-> 0, x |-> x, y |-> y, w |-> w, h |-> h,
     vx |-> vx * BULLET_SPEED_MULT, vy |-> vy * BULLET_SPEED_MULT,
     bounds |-> TRUE, upd |-> 0, old |-> FALSE]

LineBullet(x, y, vx, vy) == Projectile("LineBullet", x, y, vx, vy, 40, 6)

CircleBullet(x, y, vx, vy) == Projectile("CircleBullet", x, y, vx, vy, 8, 8)

SpiralBullet(x, y, vx, vy) == Projectile("SpiralBullet", x, y, vx, vy, 8, 8)

\* TargetingBullet.__init__: aimed once, straight down for a zero vector
TargetingBullet(x, y, target_x, target_y, speed) ==
    LET dx == target_x - x
        dy == target_y - y
        distance == Isqrt(dx * dx + dy * dy)
    IN  IF distance > 0
        THEN Projectile("TargetingBullet", x, y,
                        TruncDiv(dx * speed, distance),
                        TruncDiv(dy * speed, distance), 10, 10)
        ELSE Projectile("TargetingBullet", x, y, 0, speed, 10, 10)

\* the kill region of Projectile.set_bounds
KillRegion ==
    [left |-> box_rect.left - 100, top |-> box_rect.top - 100,
     width |-> box_rect.width + 200, height |-> box_rect.height + 200]

\* BouncingBullet.__init__
BouncingBullet(x, y, vx, vy, max_bounces) ==
    [kind |-> "BouncingBullet", id |-> 0, x |-> x, y |-> y, w |-> 20, h |-> 20,
     vx |-> vx, vy |-> vy, max_bounces |-> max_bounces, bounce_count |-> 0,
     upd |-> 0, old |-> FALSE]

\* WaveBullet.__init__: fx is the float self.x, the Rect is centred on (x, y)
WaveBullet(x, y, speed_x, amplitude, frequency) ==
    [kind |-> "WaveBullet", id |-> 0, x |-> x - 6, y |-> y - 6, w |-> 12, h |-> 12,
     fx |-> x * 1000, start_y |-> y, speed_x |-> speed_x,
     amplitude |-> amplitude, frequency |-> frequency, time |-> 0, upd |-> 0, old |-> FALSE]

\* HomingBlade.__init__: fx, fy are the float self.x, self.y
HomingBlade(x, y) ==
    [kind |-> "HomingBlade", id |-> 0, x |-> x - 15, y |-> y - 15, w |-> 30, h |-> 30,
     fx |-> x * 1000, fy |-> y * 1000, state |-> "aiming", timer |-> 0,
     aim_duration |-> 60, charge_duration |-> 15,
     target_x |-> 0, target_y |-> 0, vx |-> 0, vy |-> 0, speed |-> 15000,
     upd |-> 0, old |-> FALSE]

\* HomingBlade.set_target
SetTarget(b, target_x, target_y) ==
    [b EXCEPT !.target_x = target_x, !.target_y = target_y]

\* ExpandingRingBullet with the attributes _pattern_expanding_ring attaches
ExpandingRingBullet(center_x, center_y, angle) ==
    [kind |-> "ExpandingRingBullet", id |-> 0, x |-> center_x, y |-> center_y,
     w |-> 8, h |-> 8, vx |-> 0, vy |-> 0, bounds |-> TRUE,
     expand_angle |-> angle, expand_speed |-> 2, expand_radius |-> 10000,
     center_x |-> center_x, center_y |-> center_y, upd |-> 0, old |-> FALSE]

\* RotatingCrossBullet with the attributes _pattern_rotating_cross attaches
RotatingCrossBullet(cx, cy, i, j) ==
    [kind |-> "RotatingCrossBullet", id |-> 0, x |-> cx, y |-> cy,
     w |-> 8, h |-> 8, vx |-> 0, vy |-> 0, bounds |-> TRUE,
     beam_index |-> i, distance |-> 30 + j * 25, base_angle |-> (i * PI) \div 2,
     upd |-> 0, old |-> FALSE]

ProjectileKinds ==
    {"LineBullet", "CircleBullet", "SpiralBullet", "TargetingBullet",
     "ExpandingRingBullet", "RotatingCrossBullet"}

\* rect.center = (cx, cy)
SetCenter(b, cx, cy) == [b EXCEPT !.x = cx - b.w \div 2, !.y = cy - b.h \div 2]

\* a projectile killed only once its box has left the kill region altogether
ProjectileUpdate_KilledWhenClear(b) ==
    LET m == [b EXCEPT !.x = RectAdd(b.x, b.vx), !.y = RectAdd(b.y, b.vy),
                       !.upd = b.upd + 1]
    IN  [b |-> m, alive |-> ~(m.bounds /\ ~CollideRect(KillRegion, RectOf(m)))]

\* Projectile.update: one step of the velocity, killed outside the kill region
ProjectileUpdate(b) ==
    LET m == [b EXCEPT !.x = RectAdd(b.x, b.vx), !.y = RectAdd(b.y, b.vy),
                       !.upd = b.upd + 1]
    IN  [b |-> m, alive |-> ~(m.bounds /\ ~Contains(KillRegion, RectOf(m)))]

\* BouncingBullet.update that reflects the velocity without moving the box back
BouncingUpdate_NoClamp(b) ==
    LET x1 == RectAdd(b.x, b.vx)
        y1 == RectAdd(b.y, b.vy)
        hitL == x1 <= box_rect.left
        hitR == ~hitL /\ x1 + b.w >= Right(box_rect)
        hitT == y1 <= box_rect.top
        hitB == ~hitT /\ y1 + b.h >= Bottom(box_rect)
        m == [b EXCEPT
                !.x = x1,
                !.y = y1,
                !.vx = IF hitL THEN Abs(b.vx) ELSE IF hitR THEN -Abs(b.vx) ELSE b.vx,
                !.vy = IF hitT THEN Abs(b.vy) ELSE IF hitB THEN -Abs(b.vy) ELSE b.vy,
                !.bounce_count = b.bounce_count
                                   + (IF hitL \/ hitR THEN 1 ELSE 0)
                                   + (IF hitT \/ hitB THEN 1 ELSE 0),
                !.upd = b.upd + 1]
    IN  [b |-> m, alive |-> ~(m.bounce_count >= m.max_bounces)]

\* BouncingBullet.update
BouncingUpdate(b) ==
    LET x1 == RectAdd(b.x, b.vx)
        y1 == RectAdd(b.y, b.vy)
        hitL == x1 <= box_rect.left
        hitR == ~hitL /\ x1 + b.w >= Right(box_rect)
        hitT == y1 <= box_rect.top
        hitB == ~hitT /\ y1 + b.h >= Bottom(box_rect)
        m == [b EXCEPT
                !.x = IF hitL THEN box_rect.left
                      ELSE IF hitR THEN Right(box_rect) - b.w ELSE x1,
                !.y = IF hitT THEN box_rect.top
                      ELSE IF hitB THEN Bottom(box_rect) - b.h ELSE y1,
                !.vx = IF hitL THEN Abs(b.vx) ELSE IF hitR THEN -Abs(b.vx) ELSE b.vx,
                !.vy = IF hitT THEN Abs(b.vy) ELSE IF hitB THEN -Abs(b.vy) ELSE b.vy,
                !.bounce_count = b.bounce_count
                                   + (IF hitL \/ hitR THEN 1 ELSE 0)
                                   + (IF hitT \/ hitB THEN 1 ELSE 0),
                !.upd = b.upd + 1]
    IN  [b |-> m, alive |-> ~(m.bounce_count >= m.max_bounces)]

\* WaveBullet.update
WaveUpdate(b) ==
    LET time == b.time + 1
        fx == b.fx + b.speed_x
        fy == b.start_y * 1000 + Sin(time * b.frequency) * b.amplitude
        m == [SetCenter(b, TruncDiv(fx, 1000), TruncDiv(fy, 1000))
                EXCEPT !.time = time, !.fx = fx, !.upd = b.upd + 1]
    IN  [b |-> m,
         alive |-> ~(\/ m.x + m.w < box_rect.left - 20
                     \/ m.x > Right(box_rect) + 20)]

\* HomingBlade.update
BladeUpdate(b) ==
    IF b.state = "aiming" THEN
        LET timer == b.timer + 1
            dx == b.target_x * 1000 - b.fx
            dy == b.target_y * 1000 - b.fy
            dist == Isqrt((dx \div 1000) * (dx \div 1000) + (dy \div 1000) * (dy \div 1000))
        IN  IF timer >= b.aim_duration
            THEN [b |-> [b EXCEPT
                           !.state = "charging", !.timer = 0,
                           !.vx = IF dist > 0 THEN TruncDiv((dx \div 1000) * b.speed, dist)
                                  ELSE b.vx,
                           !.vy = IF dist > 0 THEN TruncDiv((dy \div 1000) * b.speed, dist)
                                  ELSE b.vy,
                           !.upd = b.upd + 1],
                  alive |-> TRUE]
            ELSE [b |-> [b EXCEPT !.timer = timer, !.upd = b.upd + 1], alive |-> TRUE]
    ELSE IF b.state = "charging" THEN
        LET timer == b.timer + 1
        IN  [b |-> [b EXCEPT !.timer = timer,
                             !.state = IF timer >= b.charge_duration
                                       THEN "flying" ELSE "charging",
                             !.upd = b.upd + 1],
             alive |-> TRUE]
    ELSE
        LET fx == b.fx + b.vx
            fy == b.fy + b.vy
            m == [SetCenter(b, TruncDiv(fx, 1000), TruncDiv(fy, 1000))
                    EXCEPT !.fx = fx, !.fy = fy, !.upd = b.upd + 1]
        IN  [b |-> m,
             alive |-> ~(\/ fx < (box_rect.left - 50) * 1000
                         \/ fx > (Right(box_rect) + 50) * 1000
                         \/ fy < (box_rect.top - 50) * 1000
                         \/ fy > (Bottom(box_rect) + 50) * 1000)]

\* sprite.update(), by class
SpriteUpdate(b) ==
    IF b.kind = "BouncingBullet" THEN BouncingUpdate(b)
    ELSE IF b.kind = "WaveBullet" THEN WaveUpdate(b)
    ELSE IF b.kind = "HomingBlade" THEN BladeUpdate(b)
    ELSE ProjectileUpdate(b)

\* update() of every sprite of seq in order, dropping the killed ones
RECURSIVE MapAlive(_)
MapAlive(seq) ==
    IF seq = <<>> THEN <<>>
    ELSE LET r == SpriteUpdate(Head(seq))
         IN  (IF r.alive THEN <<r.b>> ELSE <<>>) \o MapAlive(Tail(seq))

\* pygame.sprite.Group.update: update() of every sprite, killed ones leave
GroupUpdate(group) == MapAlive(group)

(***************************************************************************)
(* Hazard primitives.                                                      *)
(***************************************************************************)
\* GravityWell.__init__ (strength in thousandths)
GravityWell(x, y, strength, repel, duration) ==
    [x |-> x, y |-> y, strength |-> strength, repel |-> repel,
     duration |-> duration, timer |-> 0, active |-> TRUE, radius |-> 40]

\* GravityWell.update
WellUpdate(w) ==
    [w EXCEPT !.timer = w.timer + 1,
              !.active = IF w.timer + 1 >= w.duration THEN FALSE ELSE w.active]

\* LaserBeam.__init__ with its two random draws made
LaserBeam(is_horizontal, pos) ==
    [is_horizontal |-> is_horizontal, pos |-> pos, state |-> "warning", timer |-> 0,
     warning_duration |-> 30, active_duration |-> 15, beam_width |-> 30]

\* the beams LaserBeam(box_rect) can construct
NewLasers ==
    {LaserBeam(TRUE, p) : p \in RandInt(box_rect.top + 20, Bottom(box_rect) - 20)}
    \cup {LaserBeam(FALSE, p) : p \in RandInt(box_rect.left + 20, Right(box_rect) - 20)}

\* a beam that never leaves 'active'
LaserUpdate_StaysActive(l) ==
    LET timer == l.timer + 1
    IN  IF l.state = "warning" /\ timer >= l.warning_duration
        THEN [l EXCEPT !.state = "active", !.timer = 0]
        ELSE [l EXCEPT !.timer = timer]

\* LaserBeam.update
LaserUpdate(l) ==
    LET timer == l.timer + 1
    IN  IF l.state = "warning" /\ timer >= l.warning_duration
        THEN [l EXCEPT !.state = "active", !.timer = 0]
        ELSE IF l.state = "active" /\ timer >= l.active_duration
        THEN [l EXCEPT !.state = "done", !.timer = timer]
        ELSE [l EXCEPT !.timer = timer]

(***************************************************************************)
(* AttackManager.                                                          *)
(***************************************************************************)
BASIC_PATTERNS ==
    <<"line_rain", "circle_burst", "targeting", "bouncing_walls", "spiral",
      "laser_warning">>

COMPLEX_PATTERNS ==
    <<"snake_wave", "homing_blades", "expanding_ring", "gravity_wells",
      "rotating_cross">>

PATTERN_TYPES == BASIC_PATTERNS \o COMPLEX_PATTERNS

Range(seq) == {seq[i] : i \in 1..Len(seq)}

\* the sequences of n distinct elements of the sequence pool
RECURSIVE Arrangements(_, _)
Arrangements(pool, n) ==
    IF n = 0 THEN {<<>>}
    ELSE UNION {{<<x>> \o rest : rest \in Arrangements(pool \ {x}, n - 1)} : x \in pool}

\* the n elements of seq from position k on, cyclically
Rotation(seq, k, n) == [i \in 1..n |-> seq[((k + i - 2) % Len(seq)) + 1]]

\* a sample drawn with replacement: the same element n times
Sample_Repeating(population, n) ==
    {[i \in 1..n |-> population[k]] : k \in 1..Len(population)}

\* random.sample(population, n): every arrangement up to MaxCount elements,
\* beyond that the rotations of the population
Sample(population, n) ==
    IF n <= MaxCount THEN Arrangements(Range(population), n)
    ELSE {Rotation(population, k, n) : k \in 1..Len(population)}

\* a draw among all the basic patterns, the current one included
SecondaryChoices_AnyBasic(current_pattern) ==
    IF current_pattern \in Range(BASIC_PATTERNS)
    THEN {"None"} \cup Range(BASIC_PATTERNS)
    ELSE {"None"}

\* the secondary pattern drawn for a current pattern ("None" is None)
SecondaryChoices(current_pattern) ==
    IF current_pattern \in Range(BASIC_PATTERNS)
    THEN {"None"} \cup {p \in Range(BASIC_PATTERNS) : p # current_pattern}
    ELSE {"None"}

\* the while loop that tops a queue up to count entries by random.choice
RECURSIVE FillQueue(_, _)
FillQueue(queue, count) ==
    IF Len(queue) >= count THEN {queue}
    ELSE UNION {FillQueue(Append(queue, p), count) : p \in Range(PATTERN_TYPES)}

\* the fields every round start and reset() set to their initial values
ClearedFields(s) ==
    [s EXCEPT !.pattern_timer = 0, !.gap_timer = 0, !.in_gap = FALSE,
              !.pattern_internal_timer = 0, !.pattern_internal_timer_2 = 0,
              !.lasers = <<>>, !.laser_spawn_timer = 0, !.gravity_mode = FALSE,
              !.gravity_wells = <<>>, !.cross_bullets = <<>>, !.cross_angle = 0,
              !.ring_timer = 0, !.homing_blades = <<>>]

\* a round begun on the queue q with the secondary pattern sec
BeginRound(s, q, sec) ==
    [ClearedFields(s) EXCEPT !.attack_queue = q, !.current_pattern_index = 0,
                             !.current_pattern = q[1], !.secondary_pattern = sec,
                             !.round_active = TRUE]

\* AttackManager._start_new_round (start_round calls it)
StartNewRound(s) ==
    UNION {UNION {{BeginRound(s, q, sec) : sec \in SecondaryChoices(q[1])}
                  : q \in FillQueue(q0, PATTERNS_PER_ROUND)}
           : q0 \in Sample(PATTERN_TYPES, Min(PATTERNS_PER_ROUND, Len(PATTERN_TYPES)))}

\* the clamp of start_round_with_pattern_count
ClampCount(patterns_count) == Max(1, Min(patterns_count, Len(PATTERN_TYPES)))

\* AttackManager.start_round_with_pattern_count
StartRoundWithPatternCount(s, patterns_count) ==
    LET count == ClampCount(patterns_count)
    IN  UNION {UNION {{BeginRound(s, q, sec) : sec \in SecondaryChoices(q[1])}
                      : q \in FillQueue(q0, count)}
               : q0 \in Sample(PATTERN_TYPES, count)}

\* AttackManager.__init__
NewAttackManager ==
    StartNewRound(
        [bullets_group |-> <<>>, attack_queue |-> <<>>, current_pattern_index |-> 0,
         pattern_timer |-> 0, gap_timer |-> 0, in_gap |-> FALSE,
         round_active |-> FALSE, current_pattern |-> "None",
         secondary_pattern |-> "None", difficulty |-> 10,
         pattern_internal_timer |-> 0, pattern_internal_timer_2 |-> 0,
         lasers |-> <<>>, laser_spawn_timer |-> 0, gravity_mode |-> FALSE,
         gravity_wells |-> <<>>, cross_bullets |-> <<>>, cross_angle |-> 0,
         cross_center |-> <<0, 0>>, ring_timer |-> 0, homing_blades |-> <<>>])

\* AttackManager.clear_bullets
ClearBullets(s) ==
    [s EXCEPT !.bullets_group = <<>>, !.lasers = <<>>, !.gravity_mode = FALSE,
              !.gravity_wells = <<>>, !.cross_bullets = <<>>, !.homing_blades = <<>>]

\* _end_current_pattern that forgets to enter the gap
EndCurrentPattern_NoGap(s) ==
    [s EXCEPT !.bullets_group = <<>>, !.lasers = <<>>, !.gravity_mode = FALSE,
              !.gravity_wells = <<>>, !.cross_bullets = <<>>, !.homing_blades = <<>>,
              !.gap_timer = 0]

\* _end_current_pattern that forgets the lasers and the homing blades
EndCurrentPattern_KeepsHazards(s) ==
    [s EXCEPT !.bullets_group = <<>>, !.gravity_mode = FALSE,
              !.gravity_wells = <<>>, !.cross_bullets = <<>>,
              !.in_gap = TRUE, !.gap_timer = 0]

\* _end_current_pattern that leaves the wells and gravity_mode in place
EndCurrentPattern_KeepsGravity(s) ==
    [s EXCEPT !.bullets_group = <<>>, !.lasers = <<>>,
              !.cross_bullets = <<>>, !.homing_blades = <<>>,
              !.in_gap = TRUE, !.gap_timer = 0]

\* AttackManager._end_current_pattern
EndCurrentPattern(s) ==
    [s EXCEPT !.bullets_group = <<>>, !.lasers = <<>>, !.gravity_mode = FALSE,
              !.gravity_wells = <<>>, !.cross_bullets = <<>>, !.homing_blades = <<>>,
              !.in_gap = TRUE, !.gap_timer = 0]

\* _next_pattern that leaves round_active set when the queue is exhausted
NextPattern_StaysActive(s) ==
    LET index == s.current_pattern_index + 1
    IN  IF index >= Len(s.attack_queue)
        THEN {[s EXCEPT !.current_pattern_index = index, !.current_pattern = "None"]}
        ELSE {[s EXCEPT !.current_pattern_index = index,
                        !.current_pattern = s.attack_queue[index + 1],
                        !.pattern_timer = 0, !.pattern_internal_timer = 0,
                        !.pattern_internal_timer_2 = 0, !.laser_spawn_timer = 0,
                        !.secondary_pattern = sec]
              : sec \in SecondaryChoices(s.attack_queue[index + 1])}

\* AttackManager._next_pattern
NextPattern(s) ==
    LET index == s.current_pattern_index + 1
    IN  IF index >= Len(s.attack_queue)
        THEN {[s EXCEPT !.current_pattern_index = index, !.round_active = FALSE,
                        !.current_pattern = "None"]}
        ELSE {[s EXCEPT !.current_pattern_index = index,
                        !.current_pattern = s.attack_queue[index + 1],
                        !.pattern_timer = 0, !.pattern_internal_timer = 0,
                        !.pattern_internal_timer_2 = 0, !.laser_spawn_timer = 0,
                        !.secondary_pattern = sec]
              : sec \in SecondaryChoices(s.attack_queue[index + 1])}

\* AttackManager.reset
Reset(s) ==
    [ClearedFields(s) EXCEPT !.bullets_group = <<>>, !.attack_queue = <<>>,
                             !.current_pattern = "None", !.secondary_pattern = "None",
                             !.current_pattern_index = 0, !.round_active = FALSE]

\* set_difficulty without the upper clamp
SetDifficulty_NoCeiling(s, difficulty) == [s EXCEPT !.difficulty = Max(5, difficulty)]

\* AttackManager.set_difficulty (tenths)
SetDifficulty(s, difficulty) == [s EXCEPT !.difficulty = Max(5, Min(difficulty, 30))]

\* AttackManager.is_round_active
IsRoundActive(s) == s.round_active

\* get_remaining_attacks that returns the length of the queue
GetRemainingAttacks_QueueLength(s) == Len(s.attack_queue)

\* AttackManager.get_remaining_attacks
GetRemainingAttacks(s) == Len(s.attack_queue) - s.current_pattern_index

\* AttackManager.is_gravity_mode
IsGravityMode(s) == s.gravity_mode \/ Len(s.gravity_wells) > 0

(***************************************************************************)
(* Pattern library.  A pattern function maps the manager to the set of     *)
(* managers its random draws can produce.                                  *)
(***************************************************************************)
MaxOf(S) == IF S = {} THEN 0 ELSE CHOOSE m \in S : \A x \in S : x <= m

\* the identities in use: sprites of the group and those the lists still hold
UsedIds(s) ==
    {s.bullets_group[i].id : i \in 1..Len(s.bullets_group)}
    \cup Range(s.homing_blades) \cup Range(s.cross_bullets)

\* the sprites of seq as new objects
WithIds(s, seq) == [i \in 1..Len(seq) |-> [seq[i] EXCEPT !.id = MaxOf(UsedIds(s)) + i]]

\* bullets_group.add for every sprite of seq
AddSprites(s, seq) == [s EXCEPT !.bullets_group = @ \o WithIds(s, seq)]

\* the timer slot of a basic pattern after its increment
TimerOf(s, secondary) ==
    IF secondary THEN s.pattern_internal_timer_2 + 1 ELSE s.pattern_internal_timer + 1

StoreTimer(s, secondary, timer) ==
    IF secondary THEN [s EXCEPT !.pattern_internal_timer_2 = timer]
    ELSE [s EXCEPT !.pattern_internal_timer = timer]

\* int(interval / difficulty)
Interval(interval, difficulty) == (interval * 10) \div difficulty

\* a speed factor times BULLET_BASE_SPEED, in thousandths (factor in tenths)
Speed(factor10) == BULLET_BASE_SPEED * factor10 * 100

\* line_rain that leaves its timer running after a spawn
PatternLineRain_NoReset(s, secondary) ==
    LET timer == TimerOf(s, secondary)
        interval == Interval(LINE_RAIN_INTERVAL, s.difficulty)
        speed == Speed(s.difficulty)
    IN  IF timer >= interval
        THEN {StoreTimer(
                 AddSprites(s, [i \in 1..LINE_RAIN_BULLET_COUNT |->
                                   LineBullet(xs[i], box_rect.top - 20, 0, speed)]),
                 secondary, timer)
              : xs \in [1..LINE_RAIN_BULLET_COUNT ->
                          RandInt(box_rect.left + 20, Right(box_rect) - 60)]}
        ELSE {StoreTimer(s, secondary, timer)}

\* AttackManager._pattern_line_rain
PatternLineRain(s, secondary) ==
    LET timer == TimerOf(s, secondary)
        interval == Interval(LINE_RAIN_INTERVAL, s.difficulty)
        speed == Speed(s.difficulty)
    IN  IF timer >= interval
        THEN {StoreTimer(
                 AddSprites(s, [i \in 1..LINE_RAIN_BULLET_COUNT |->
                                   LineBullet(xs[i], box_rect.top - 20, 0, speed)]),
                 secondary, 0)
              : xs \in [1..LINE_RAIN_BULLET_COUNT ->
                          RandInt(box_rect.left + 20, Right(box_rect) - 60)]}
        ELSE {StoreTimer(s, secondary, timer)}

\* AttackManager._pattern_circle_burst
PatternCircleBurst(s, secondary) ==
    LET timer == TimerOf(s, secondary)
        interval == Interval(CIRCLE_BURST_INTERVAL, s.difficulty)
        count == (CIRCLE_BURST_COUNT * s.difficulty) \div 10
        speed == Speed(15)
        Angle(i) == (2 * PI * i) \div count
    IN  IF timer >= interval
        THEN {StoreTimer(
                 AddSprites(s, [k \in 1..count |->
                                   CircleBullet(CenterX(box_rect), CenterY(box_rect),
                                                TruncDiv(Cos(Angle(k - 1)) * speed, 1000),
                                                TruncDiv(Sin(Angle(k - 1)) * speed, 1000))]),
                 secondary, 0)}
        ELSE {StoreTimer(s, secondary, timer)}

\* the four corners of the box, as _pattern_targeting lists them
Corners ==
    <<<<box_rect.left, box_rect.top>>, <<Right(box_rect), box_rect.top>>,
      <<box_rect.left, Bottom(box_rect)>>, <<Right(box_rect), Bottom(box_rect)>>>>

\* AttackManager._pattern_targeting
PatternTargeting(s, player_x, player_y, secondary) ==
    LET timer == TimerOf(s, secondary)
        interval == Interval(TARGETING_INTERVAL, s.difficulty)
        speed == Speed(s.difficulty)
    IN  IF timer >= interval
        THEN {StoreTimer(
                 AddSprites(s, [i \in 1..Len(shot) |->
                                   TargetingBullet(shot[i][1], shot[i][2],
                                                   player_x, player_y, speed)]),
                 secondary, 0)
              : shot \in Arrangements(Range(Corners),
                                      Min(TARGETING_BULLETS_PER_SHOT, Len(Corners)))}
        ELSE {StoreTimer(s, secondary, timer)}

\* the bullets one spawn of _pattern_bouncing_walls can construct
NewBouncingBullets(difficulty) ==
    LET V(v) == v * difficulty * 100
        Xs == RandInt(box_rect.left + 20, Right(box_rect) - 40)
        Ys == RandInt(box_rect.top + 20, Bottom(box_rect) - 40)
        Bounces == RandInt(3, 4)
    IN  {BouncingBullet(x, box_rect.top + 10, V(vx), V(vy), m)
           : x \in Xs, vx \in {-3, 3}, vy \in RandInt(2, 4), m \in Bounces}
        \cup {BouncingBullet(x, Bottom(box_rect) - 30, V(vx), V(vy), m)
           : x \in Xs, vx \in {-3, 3}, vy \in RandInt(-4, -2), m \in Bounces}
        \cup {BouncingBullet(box_rect.left + 10, y, V(vx), V(vy), m)
           : y \in Ys, vx \in RandInt(2, 4), vy \in {-3, 3}, m \in Bounces}
        \cup {BouncingBullet(Right(box_rect) - 30, y, V(vx), V(vy), m)
           : y \in Ys, vx \in RandInt(-4, -2), vy \in {-3, 3}, m \in Bounces}

\* AttackManager._pattern_bouncing_walls
PatternBouncingWalls(s, secondary) ==
    LET timer == TimerOf(s, secondary)
        interval == Interval(60, s.difficulty)
    IN  IF timer >= interval
        THEN {StoreTimer(AddSprites(s, <<b>>), secondary, 0)
              : b \in NewBouncingBullets(s.difficulty)}
        ELSE {StoreTimer(s, secondary, timer)}

\* AttackManager._pattern_spiral
PatternSpiral(s) ==
    LET timer == s.pattern_internal_timer + 1
        base_angle == s.pattern_timer * 100
        speed == Speed(12)
        Angle(i) == base_angle + i * PI
    IN  IF timer >= 3
        THEN {[AddSprites(s, [k \in 1..2 |->
                                 SpiralBullet(CenterX(box_rect), CenterY(box_rect),
                                              TruncDiv(Cos(Angle(k - 1)) * speed, 1000),
                                              TruncDiv(Sin(Angle(k - 1)) * speed, 1000))])
                 EXCEPT !.pattern_internal_timer = 0]}
        ELSE {[s EXCEPT !.pattern_internal_timer = timer]}

\* the beams of a list after update(), the done ones removed
RECURSIVE UpdateLasers(_)
UpdateLasers(lasers) ==
    IF lasers = <<>> THEN <<>>
    ELSE LET l == LaserUpdate(Head(lasers))
         IN  (IF l.state = "done" THEN <<>> ELSE <<l>>) \o UpdateLasers(Tail(lasers))

\* _pattern_laser_warning without the removal of the beams that are done
PatternLaserWarning_NoPrune(s) ==
    LET timer == s.laser_spawn_timer + 1
        lasers == [i \in 1..Len(s.lasers) |-> LaserUpdate(s.lasers[i])]
    IN  IF timer >= 60
        THEN {[s EXCEPT !.laser_spawn_timer = 0, !.lasers = Append(lasers, l)]
              : l \in NewLasers}
        ELSE {[s EXCEPT !.laser_spawn_timer = timer, !.lasers = lasers]}

\* AttackManager._pattern_laser_warning
PatternLaserWarning(s) ==
    LET timer == s.laser_spawn_timer + 1
        lasers == UpdateLasers(s.lasers)
    IN  IF timer >= 60
        THEN {[s EXCEPT !.laser_spawn_timer = 0, !.lasers = Append(lasers, l)]
              : l \in NewLasers}
        ELSE {[s EXCEPT !.laser_spawn_timer = timer, !.lasers = lasers]}

\* range(lo, hi, step) as a sequence
RECURSIVE PyRange(_, _, _)
PyRange(lo, hi, step) == IF lo >= hi THEN <<>> ELSE <<lo>> \o PyRange(lo + step, hi, step)

\* AttackManager._pattern_snake_wave
PatternSnakeWave(s) ==
    LET timer == s.pattern_internal_timer + 1
        y_positions == PyRange(box_rect.top + 10, Bottom(box_rect) - 10, 40)
    IN  IF timer >= 40
        THEN {[AddSprites(s, [i \in 1..Len(y_positions) |->
                                 WaveBullet(box_rect.left - 10, y_positions[i],
                                            300 * s.difficulty, 30, 100)])
                 EXCEPT !.pattern_internal_timer = 0]}
        ELSE {[s EXCEPT !.pattern_internal_timer = timer]}

\* the position of the sprite with identity id in the group, 0 when it is dead
IndexOfId(group, id) ==
    IF \E i \in 1..Len(group) : group[i].id = id
    THEN CHOOSE i \in 1..Len(group) : group[i].id = id
    ELSE 0

RemoveAt(seq, i) == SubSeq(seq, 1, i - 1) \o SubSeq(seq, i + 1, Len(seq))

\* the loop of _pattern_homing_blades over a copy of homing_blades: update(),
\* re-target while aiming, drop the blades that are no longer alive
RECURSIVE UpdateBlades(_, _, _, _)
UpdateBlades(s, ids, player_x, player_y) ==
    IF ids = <<>> THEN s
    ELSE
        LET id == Head(ids)
            i == IndexOfId(s.bullets_group, id)
            Unlisted(u) == [u EXCEPT !.homing_blades = SelectSeq(@, LAMBDA j : j # id)]
        IN  IF i = 0
            THEN UpdateBlades(Unlisted(s), Tail(ids), player_x, player_y)
            ELSE
                LET r == BladeUpdate(s.bullets_group[i])
                    b == IF r.b.state = "aiming"
                         THEN SetTarget(r.b, player_x, player_y) ELSE r.b
                IN  IF r.alive
                    THEN UpdateBlades([s EXCEPT !.bullets_group[i] = b],
                                      Tail(ids), player_x, player_y)
                    ELSE UpdateBlades(
                             Unlisted([s EXCEPT !.bullets_group = RemoveAt(@, i)]),
                             Tail(ids), player_x, player_y)

\* the blade _pattern_homing_blades can put on an edge
BladesOn(edge) ==
    IF edge = "top"
    THEN {HomingBlade(x, box_rect.top + 20)
            : x \in RandInt(box_rect.left + 30, Right(box_rect) - 30)}
    ELSE IF edge = "bottom"
    THEN {HomingBlade(x, Bottom(box_rect) - 20)
            : x \in RandInt(box_rect.left + 30, Right(box_rect) - 30)}
    ELSE IF edge = "left"
    THEN {HomingBlade(box_rect.left + 20, y)
            : y \in RandInt(box_rect.top + 30, Bottom(box_rect) - 30)}
    ELSE {HomingBlade(Right(box_rect) - 20, y)
            : y \in RandInt(box_rect.top + 30, Bottom(box_rect) - 30)}

\* the blade lists one spawn can construct: 2 or 3 distinct edges, in the drawn order
NewBlades ==
    UNION {UNION {{blades \in [1..Len(edges) -> UNION {BladesOn(e) : e \in Range(edges)}]
                     : \A i \in 1..Len(edges) : blades[i] \in BladesOn(edges[i])}
                  : edges \in Arrangements({"top", "bottom", "left", "right"}, n)}
           : n \in RandInt(2, 3)}

\* AttackManager._pattern_homing_blades
PatternHomingBlades(s, player_x, player_y) ==
    LET timer == s.pattern_internal_timer + 1
        u == UpdateBlades(s, s.homing_blades, player_x, player_y)
    IN  IF timer >= 90
        THEN {LET new == WithIds(u, [i \in 1..Len(blades) |->
                                        SetTarget(blades[i], player_x, player_y)])
              IN  [u EXCEPT !.pattern_internal_timer = 0,
                            !.homing_blades = @ \o [i \in 1..Len(new) |-> new[i].id],
                            !.bullets_group = @ \o new]
              : blades \in NewBlades}
        ELSE {[u EXCEPT !.pattern_internal_timer = timer]}

\* the advance of one sprite in the loop of _pattern_expanding_ring
RingAdvance(b, difficulty) ==
    LET radius == b.expand_radius + b.expand_speed * difficulty * 100
        m == [SetCenter(b,
                 TruncDiv(b.center_x * 1000 + (Cos(b.expand_angle) * radius) \div 1000, 1000),
                 TruncDiv(b.center_y * 1000 + (Sin(b.expand_angle) * radius) \div 1000, 1000))
                EXCEPT !.expand_radius = radius]
    IN  [b |-> m,
         alive |-> ~(radius > Max(box_rect.width, box_rect.height) * 1000)]

RECURSIVE AdvanceRings(_, _)
AdvanceRings(group, difficulty) ==
    IF group = <<>> THEN <<>>
    ELSE LET b == Head(group)
             r == IF b.kind = "ExpandingRingBullet" THEN RingAdvance(b, difficulty)
                  ELSE [b |-> b, alive |-> TRUE]
         IN  (IF r.alive THEN <<r.b>> ELSE <<>>) \o AdvanceRings(Tail(group), difficulty)

\* random.sample(range(16), 2), as the set of the two gaps
RingGaps == {g \in {{i, j} : i \in 0..15, j \in 0..15} : Cardinality(g) = 2}

\* AttackManager._pattern_expanding_ring
PatternExpandingRing(s) ==
    LET timer == s.ring_timer + 1
        num_bullets == 16
        Ring(cx, cy, gaps) ==
            LET kept == SelectSeq([i \in 1..num_bullets |-> i - 1],
                                  LAMBDA i : i \notin gaps)
            IN  [k \in 1..Len(kept) |->
                    ExpandingRingBullet(cx, cy, (2 * PI * kept[k]) \div num_bullets)]
        Advanced(u) == [u EXCEPT !.bullets_group = AdvanceRings(@, u.difficulty)]
    IN  IF timer >= 100
        THEN {Advanced([AddSprites(s, Ring(cx, cy, gaps)) EXCEPT !.ring_timer = 0])
              : cx \in RandInt(box_rect.left + 50, Right(box_rect) - 50),
                cy \in RandInt(box_rect.top + 50, Bottom(box_rect) - 50),
                gaps \in RingGaps}
        ELSE {Advanced([s EXCEPT !.ring_timer = timer])}

\* math.atan2(dy, dx) to the nearest 15 degrees, in milliradians
Atan2(dy, dx) ==
    LET Dot(k) == Cos15(k) * dx + Cos15(k - 6) * dy
        best == CHOOSE k \in 0..23 : \A j \in 0..23 : Dot(j) <= Dot(k)
    IN  (best * 2 * PI) \div 24

\* gravity_wells whose well expires one tick before the pattern ends
PatternGravityWells_ShortWell(s, player_x, player_y) ==
    LET timer == s.pattern_internal_timer + 1
        speed == Speed(12)
        Bullet(corner_x, corner_y, jitter) ==
            LET angle == Atan2(CenterY(box_rect) - corner_y, CenterX(box_rect) - corner_x)
                         + jitter
            IN  CircleBullet(corner_x, corner_y,
                             TruncDiv(Cos(angle) * speed, 1000),
                             TruncDiv(Sin(angle) * speed, 1000))
        Wells == IF s.gravity_wells = <<>>
                 THEN {<<GravityWell(CenterX(box_rect), CenterY(box_rect), 400, repel,
                                     ATTACK_DURATION - 2)>> : repel \in BOOLEAN}
                 ELSE {s.gravity_wells}
        Ticked(wells) ==
            [s EXCEPT !.gravity_wells = [i \in 1..Len(wells) |-> WellUpdate(wells[i])],
                      !.gravity_mode = TRUE]
    IN  IF timer >= 30
        THEN {[AddSprites(Ticked(wells), <<Bullet(corner_x, corner_y, jitter)>>)
                 EXCEPT !.pattern_internal_timer = 0]
              : wells \in Wells,
                corner_x \in {box_rect.left, Right(box_rect)},
                corner_y \in {box_rect.top, Bottom(box_rect)},
                jitter \in RandInt(-500, 500)}
        ELSE {[Ticked(wells) EXCEPT !.pattern_internal_timer = timer] : wells \in Wells}

\* AttackManager._pattern_gravity_wells
PatternGravityWells(s, player_x, player_y) ==
    LET timer == s.pattern_internal_timer + 1
        speed == Speed(12)
        Bullet(corner_x, corner_y, jitter) ==
            LET angle == Atan2(CenterY(box_rect) - corner_y, CenterX(box_rect) - corner_x)
                         + jitter
            IN  CircleBullet(corner_x, corner_y,
                             TruncDiv(Cos(angle) * speed, 1000),
                             TruncDiv(Sin(angle) * speed, 1000))
        Wells == IF s.gravity_wells = <<>>
                 THEN {<<GravityWell(CenterX(box_rect), CenterY(box_rect), 400, repel,
                                     ATTACK_DURATION)>> : repel \in BOOLEAN}
                 ELSE {s.gravity_wells}
        Ticked(wells) ==
            [s EXCEPT !.gravity_wells = [i \in 1..Len(wells) |-> WellUpdate(wells[i])],
                      !.gravity_mode = TRUE]
    IN  IF timer >= 30
        THEN {[AddSprites(Ticked(wells), <<Bullet(corner_x, corner_y, jitter)>>)
                 EXCEPT !.pattern_internal_timer = 0]
              : wells \in Wells,
                corner_x \in {box_rect.left, Right(box_rect)},
                corner_y \in {box_rect.top, Bottom(box_rect)},
                jitter \in RandInt(-500, 500)}
        ELSE {[Ticked(wells) EXCEPT !.pattern_internal_timer = timer] : wells \in Wells}

\* the rotation _pattern_rotating_cross applies to the listed sprites still alive
RotateCross(s) ==
    LET Turned(b) ==
            LET angle == b.base_angle + s.cross_angle
            IN  SetCenter(b,
                    TruncDiv(s.cross_center[1] * 1000 + Cos(angle) * b.distance, 1000),
                    TruncDiv(s.cross_center[2] * 1000 + Sin(angle) * b.distance, 1000))
    IN  [s EXCEPT !.bullets_group =
            [i \in 1..Len(@) |->
                IF @[i].id \in Range(s.cross_bullets) /\ @[i].kind = "RotatingCrossBullet"
                THEN Turned(@[i]) ELSE @[i]]]

\* AttackManager._pattern_rotating_cross
PatternRotatingCross(s, player_x, player_y) ==
    LET cx == CenterX(box_rect)
        cy == CenterY(box_rect)
        built ==
            IF s.cross_bullets = <<>>
            THEN LET new == WithIds(s, [k \in 1..32 |->
                                RotatingCrossBullet(cx, cy, (k - 1) \div 8, (k - 1) % 8)])
                 IN  [s EXCEPT !.cross_center = <<cx, cy>>,
                               !.cross_bullets = [i \in 1..Len(new) |-> new[i].id],
                               !.bullets_group = @ \o new]
            ELSE s
        turned == RotateCross([built EXCEPT !.cross_angle = @ + 2 * s.difficulty])
        timer == s.pattern_internal_timer + 1
        speed == Speed(8)
    IN  IF timer >= 60
        THEN {[AddSprites(turned, [i \in 1..2 |->
                                     CircleBullet(xs[i], box_rect.top - 10, 0, speed)])
                 EXCEPT !.pattern_internal_timer = 0]
              : xs \in [1..2 -> RandInt(box_rect.left + 20, Right(box_rect) - 20)]}
        ELSE {[turned EXCEPT !.pattern_internal_timer = timer]}

(***************************************************************************)
(* The tick of the manager.  A result names the manager after the call     *)
(* (s), the value returned (ret) and the pattern functions called (ran).   *)
(***************************************************************************)
Ran(S, name) == {[s |-> u, ran |-> <<name>>] : u \in S}

\* AttackManager._execute_current_pattern
ExecuteCurrentPattern(s, player_x, player_y) ==
    LET pattern == s.current_pattern
    IN  IF pattern = "line_rain" THEN Ran(PatternLineRain(s, FALSE), pattern)
        ELSE IF pattern = "circle_burst" THEN Ran(PatternCircleBurst(s, FALSE), pattern)
        ELSE IF pattern = "targeting"
        THEN Ran(PatternTargeting(s, player_x, player_y, FALSE), pattern)
        ELSE IF pattern = "bouncing_walls" THEN Ran(PatternBouncingWalls(s, FALSE), pattern)
        ELSE IF pattern = "spiral" THEN Ran(PatternSpiral(s), pattern)
        ELSE IF pattern = "laser_warning" THEN Ran(PatternLaserWarning(s), pattern)
        ELSE IF pattern = "snake_wave" THEN Ran(PatternSnakeWave(s), pattern)
        ELSE IF pattern = "homing_blades"
        THEN Ran(PatternHomingBlades(s, player_x, player_y), pattern)
        ELSE IF pattern = "expanding_ring" THEN Ran(PatternExpandingRing(s), pattern)
        ELSE IF pattern = "gravity_wells"
        THEN Ran(PatternGravityWells(s, player_x, player_y), pattern)
        ELSE IF pattern = "rotating_cross"
        THEN Ran(PatternRotatingCross(s, player_x, player_y), pattern)
        ELSE {[s |-> s, ran |-> <<>>]}

\* AttackManager._execute_secondary_pattern
ExecuteSecondaryPattern(s, player_x, player_y) ==
    LET pattern == s.secondary_pattern
    IN  IF pattern = "line_rain" THEN Ran(PatternLineRain(s, TRUE), pattern)
        ELSE IF pattern = "circle_burst" THEN Ran(PatternCircleBurst(s, TRUE), pattern)
        ELSE IF pattern = "targeting"
        THEN Ran(PatternTargeting(s, player_x, player_y, TRUE), pattern)
        ELSE IF pattern = "bouncing_walls" THEN Ran(PatternBouncingWalls(s, TRUE), pattern)
        ELSE {[s |-> s, ran |-> <<>>]}

\* the gap branch with the comparison off by one: the gap lasts a call longer
UpdateGap_Late(s) ==
    IF s.gap_timer + 1 > GAP_BETWEEN_ATTACKS
    THEN {[s |-> u, ret |-> TRUE, ran |-> <<>>]
          : u \in NextPattern([s EXCEPT !.in_gap = FALSE, !.gap_timer = 0])}
    ELSE {[s |-> [s EXCEPT !.gap_timer = @ + 1], ret |-> TRUE, ran |-> <<>>]}

\* AttackManager.update, the branch taken in a gap
UpdateGap(s) ==
    IF s.gap_timer + 1 >= GAP_BETWEEN_ATTACKS
    THEN {[s |-> u, ret |-> TRUE, ran |-> <<>>]
          : u \in NextPattern([s EXCEPT !.in_gap = FALSE, !.gap_timer = 0])}
    ELSE {[s |-> [s EXCEPT !.gap_timer = @ + 1], ret |-> TRUE, ran |-> <<>>]}

\* AttackManager.update, the branch taken while a pattern runs
UpdatePattern(s, player_x, player_y) ==
    IF s.pattern_timer + 1 >= ATTACK_DURATION
    THEN {[s |-> EndCurrentPattern([s EXCEPT !.pattern_timer = @ + 1]),
           ret |-> TRUE, ran |-> <<>>]}
    ELSE
        UNION {IF p.s.secondary_pattern # "None"
               THEN {[s |-> q.s, ret |-> TRUE, ran |-> p.ran \o q.ran]
                     : q \in ExecuteSecondaryPattern(p.s, player_x, player_y)}
               ELSE {[s |-> p.s, ret |-> TRUE, ran |-> p.ran]}
               : p \in ExecuteCurrentPattern([s EXCEPT !.pattern_timer = @ + 1],
                                             player_x, player_y)}

\* update without the early return of a round that is over
Update_NoGuard(s, player_x, player_y) ==
    IF s.in_gap THEN UpdateGap(s) ELSE UpdatePattern(s, player_x, player_y)

\* AttackManager.update
Update(s, player_x, player_y) ==
    IF ~s.round_active THEN {[s |-> s, ret |-> FALSE, ran |-> <<>>]}
    ELSE IF s.in_gap THEN UpdateGap(s)
    ELSE UpdatePattern(s, player_x, player_y)

(***************************************************************************)
(* Enemy, Player and Battle.                                               *)
(***************************************************************************)
MOB_HP == 10
BOSS_HP == 20
MOB_ATTACK_DAMAGE == 2
BOSS_ATTACK_DAMAGE == 4
\* thousandths
BOSS_PHASE2_THRESHOLD == 500
SAFETY_PAUSE_DURATION == 2
WARMUP_DURATION == 2

\* Enemy.__init__ with the default hp and attack_damage
Enemy(is_boss) ==
    [is_boss |-> is_boss,
     max_hp |-> IF is_boss THEN BOSS_HP ELSE MOB_HP,
     hp |-> IF is_boss THEN BOSS_HP ELSE MOB_HP,
     attack_damage |-> IF is_boss THEN BOSS_ATTACK_DAMAGE ELSE MOB_ATTACK_DAMAGE,
     phase |-> 1, phase2_triggered |-> FALSE, is_sparable |-> FALSE]

\* current_enemy = None
NoEnemy ==
    [is_boss |-> FALSE, max_hp |-> 0, hp |-> 0, attack_damage |-> 0,
     phase |-> 0, phase2_triggered |-> FALSE, is_sparable |-> FALSE]

\* a take_damage that moves any enemy to the second phase
EnemyTakeDamage_AnyEnemy(e, damage) ==
    LET hp == Max(0, e.hp - damage)
        second == e.phase = 1 /\ hp * 1000 <= e.max_hp * BOSS_PHASE2_THRESHOLD
    IN  [e |-> [e EXCEPT !.hp = hp,
                         !.phase = IF second THEN 2 ELSE @,
                         !.phase2_triggered = IF second THEN TRUE ELSE @],
         ret |-> hp <= 0]

\* Enemy.take_damage: the enemy after the hit and the value returned
EnemyTakeDamage(e, damage) ==
    LET hp == Max(0, e.hp - damage)
        second == e.is_boss /\ e.phase = 1
                  /\ hp * 1000 <= e.max_hp * BOSS_PHASE2_THRESHOLD
    IN  [e |-> [e EXCEPT !.hp = hp,
                         !.phase = IF second THEN 2 ELSE @,
                         !.phase2_triggered = IF second THEN TRUE ELSE @],
         ret |-> hp <= 0]

\* Player.update_invulnerability
UpdateInvulnerability(p) ==
    IF p.invulnerability_timer > 0
    THEN [p EXCEPT !.invulnerability_timer = @ - 1]
    ELSE p

\* take_damage that opens no invulnerability window
TakeDamage_NoWindow(p, damage) ==
    IF p.invulnerability_timer > 0
    THEN [p |-> p, ret |-> FALSE]
    ELSE [p |-> [p EXCEPT !.hp = Max(0, @ - damage)], ret |-> TRUE]

\* Player.take_damage: the player after the call and the value returned
TakeDamage(p, damage) ==
    IF p.invulnerability_timer > 0
    THEN [p |-> p, ret |-> FALSE]
    ELSE [p |-> [p EXCEPT !.hp = Max(0, @ - damage),
                          !.invulnerability_timer = INVULNERABILITY_TIME],
          ret |-> TRUE]

\* Player.reset_battle_state
ResetBattleState(p) == [p EXCEPT !.hp = p.max_hp, !.invulnerability_timer = 0]

\* Player.is_alive
IsAlive(p) == p.hp > 0

(***************************************************************************)
(* The battle menu (combat/battle_ui.py).  Indices are those of the code,  *)
(* counted from 0.  An entry of submenu_items is a text of the ACT         *)
(* submenu or an item of the inventory (a dict in the code).               *)
(***************************************************************************)
\* BattleUI.BUTTON_NAMES
BUTTON_NAMES == <<"FIGHT", "ACT", "ITEM", "MERCY">>

TextEntry(text) == [is_item |-> FALSE, text |-> text, heal_value |-> 0]

\* an item of pickup_item.py, as kept in the inventory
ItemEntry(heal_value) == [is_item |-> TRUE, text |-> "item", heal_value |-> heal_value]

\* BattleUI.__init__
NewBattleUI ==
    [selected_index |-> 0, submenu_active |-> FALSE, submenu_items |-> <<>>,
     submenu_selected |-> 0, mercy_spare |-> FALSE]

\* BattleUI.open_submenu, BattleUI.open_item_menu
OpenSubmenu(ui, items) ==
    [ui EXCEPT !.submenu_active = TRUE, !.submenu_items = items, !.submenu_selected = 0]

\* BattleUI.close_submenu
CloseSubmenu(ui) ==
    [ui EXCEPT !.submenu_active = FALSE, !.submenu_items = <<>>, !.submenu_selected = 0]

\* BattleUI.set_mercy_spare
SetMercySpare(ui, value) == [ui EXCEPT !.mercy_spare = value]

UIResult(ui, action, index) == [ui |-> ui, action |-> action, index |-> index]

\* BattleUI._handle_main_menu_input
HandleMainMenuInput(ui, key) ==
    IF key = "left"
    THEN UIResult([ui EXCEPT !.selected_index = (@ - 1) % Len(BUTTON_NAMES)], "None", 0)
    ELSE IF key = "right"
    THEN UIResult([ui EXCEPT !.selected_index = (@ + 1) % Len(BUTTON_NAMES)], "None", 0)
    ELSE IF key = "z"
    THEN UIResult(ui, BUTTON_NAMES[ui.selected_index + 1], 0)
    ELSE UIResult(ui, "None", 0)

\* BattleUI._handle_submenu_input
HandleSubmenuInput(ui, key) ==
    IF ui.submenu_items = <<>>
    THEN IF key \in {"x", "z"}
         THEN UIResult(CloseSubmenu(ui), "back", 0)
         ELSE UIResult(ui, "None", 0)
    ELSE IF key = "up"
    THEN UIResult([ui EXCEPT !.submenu_selected = (@ - 1) % Len(ui.submenu_items)],
                  "None", 0)
    ELSE IF key = "down"
    THEN UIResult([ui EXCEPT !.submenu_selected = (@ + 1) % Len(ui.submenu_items)],
                  "None", 0)
    ELSE IF key = "z"
    THEN LET selected_idx == ui.submenu_selected
             selected_item == ui.submenu_items[selected_idx + 1]
         IN  IF selected_item.is_item
             THEN UIResult(CloseSubmenu(ui), "item", selected_idx)
             ELSE UIResult(CloseSubmenu(ui), selected_item.text, 0)
    ELSE IF key = "x"
    THEN UIResult(CloseSubmenu(ui), "back", 0)
    ELSE UIResult(ui, "None", 0)

\* BattleUI.handle_input
UIHandleInput(ui, key) ==
    IF ui.submenu_active THEN HandleSubmenuInput(ui, key)
    ELSE HandleMainMenuInput(ui, key)

\* Battle.__init__ apart from the AttackManager; fight bar in thousandths
NewBattle ==
    [current_enemy |-> NoEnemy, battle_mode |-> "menu",
     fight_bar_active |-> FALSE, fight_bar_position |-> 0,
     fight_bar_direction |-> 1, fight_bar_speed |-> 30,
     show_phase2_message |-> FALSE, phase2_message_timer |-> 0,
     safety_pause_active |-> FALSE, safety_pause_timer |-> 0,
     warmup_active |-> FALSE, warmup_timer |-> 0, ui |-> NewBattleUI]

\* Battle.can_player_move
CanPlayerMove(b) == b.battle_mode \in {"dodge", "warmup"}

\* Battle.set_enemy
SetEnemy(b, enemy) ==
    [b EXCEPT !.current_enemy = enemy,
              !.ui = SetMercySpare(@, enemy.is_sparable),
              !.show_phase2_message = FALSE, !.phase2_message_timer = 0]

\* a safety pause that lasts one frame
StartSafetyPause_OneFrame(b) ==
    [b EXCEPT !.safety_pause_active = TRUE, !.safety_pause_timer = 1,
              !.battle_mode = "safety_pause"]

\* Battle.start_safety_pause
StartSafetyPause(b) ==
    [b EXCEPT !.safety_pause_active = TRUE,
              !.safety_pause_timer = SAFETY_PAUSE_DURATION,
              !.battle_mode = "safety_pause"]

\* Battle._start_warmup
StartWarmup(b) ==
    [b EXCEPT !.warmup_active = TRUE, !.warmup_timer = WARMUP_DURATION,
              !.battle_mode = "warmup"]

\* an end of warmup that gives every enemy the round of a mob
StartEnemyAttackAfterWarmup_MobRound(b, a) ==
    IF b.current_enemy = NoEnemy
    THEN {[battle |-> [b EXCEPT !.battle_mode = "menu"], am |-> a]}
    ELSE {[battle |-> [b EXCEPT !.battle_mode = "dodge"], am |-> r]
          : r \in StartRoundWithPatternCount(a, MOB_PATTERNS_PER_ROUND)}

\* Battle._start_enemy_attack_after_warmup: the battles and managers it can leave
StartEnemyAttackAfterWarmup(b, a) ==
    IF b.current_enemy = NoEnemy
    THEN {[battle |-> [b EXCEPT !.battle_mode = "menu"], am |-> a]}
    ELSE IF b.current_enemy.is_boss
    THEN IF b.current_enemy.phase = 1
         THEN {[battle |-> [b EXCEPT !.battle_mode = "dodge"], am |-> r]
               : r \in StartRoundWithPatternCount(a, 1)}
         ELSE UNION {{[battle |-> [b EXCEPT !.battle_mode = "dodge"],
                       am |-> SetDifficulty(r, 13)]
                      : r \in StartRoundWithPatternCount(a, patterns_count)}
                     : patterns_count \in RandIntAll(2, 4)}
    ELSE {[battle |-> [b EXCEPT !.battle_mode = "dodge"], am |-> r]
          : r \in StartRoundWithPatternCount(a, MOB_PATTERNS_PER_ROUND)}

\* Battle._end_dodge_phase
EndDodgePhase(b, a) ==
    [battle |-> [b EXCEPT !.battle_mode = "menu"],
     am |-> Reset([a EXCEPT !.bullets_group = <<>>])]

\* a reset that leaves the manager and the group as they are
BattleReset_ModeOnly(b, a) ==
    [battle |-> [b EXCEPT !.battle_mode = "menu", !.fight_bar_active = FALSE,
                          !.show_phase2_message = FALSE, !.phase2_message_timer = 0,
                          !.safety_pause_active = FALSE, !.safety_pause_timer = 0,
                          !.warmup_active = FALSE, !.warmup_timer = 0],
     am |-> a]

\* Battle.reset
BattleReset(b, a) ==
    [battle |-> [b EXCEPT !.battle_mode = "menu", !.ui = CloseSubmenu(@),
                          !.fight_bar_active = FALSE,
                          !.show_phase2_message = FALSE, !.phase2_message_timer = 0,
                          !.safety_pause_active = FALSE, !.safety_pause_timer = 0,
                          !.warmup_active = FALSE, !.warmup_timer = 0],
     am |-> Reset([a EXCEPT !.bullets_group = <<>>])]

\* Battle.update, the phase-2 message countdown at its head
MessageTick(b) ==
    IF b.phase2_message_timer > 0
    THEN [b EXCEPT !.phase2_message_timer = @ - 1,
                   !.show_phase2_message = IF b.phase2_message_timer - 1 <= 0
                                           THEN FALSE ELSE @]
    ELSE b

\* a bar that runs on beyond the two ends
FightBarTick_NoBounce(b) ==
    [b EXCEPT !.fight_bar_position = @ + b.fight_bar_speed * b.fight_bar_direction]

\* a bar that is reflected at the ends of the scale instead of being put on them
FightBarTick_Reflects(b) ==
    LET position == b.fight_bar_position + b.fight_bar_speed * b.fight_bar_direction
    IN  IF position >= 1000
        THEN [b EXCEPT !.fight_bar_position = 2000 - position,
                       !.fight_bar_direction = -1]
        ELSE IF position <= 0
        THEN [b EXCEPT !.fight_bar_position = 0 - position, !.fight_bar_direction = 1]
        ELSE [b EXCEPT !.fight_bar_position = position]

\* Battle.update, the fight bar branch
FightBarTick(b) ==
    LET position == b.fight_bar_position + b.fight_bar_speed * b.fight_bar_direction
    IN  IF position >= 1000
        THEN [b EXCEPT !.fight_bar_position = 1000, !.fight_bar_direction = -1]
        ELSE IF position <= 0
        THEN [b EXCEPT !.fight_bar_position = 0, !.fight_bar_direction = 1]
        ELSE [b EXCEPT !.fight_bar_position = position]

\* a dodge branch that ignores the value the manager returns
DodgeTick_NeverEnds(b, a, player_x, player_y) ==
    LET moved == [a EXCEPT !.bullets_group = GroupUpdate(a.bullets_group)]
    IN  {[battle |-> b, am |-> r.s] : r \in Update(moved, player_x, player_y)}

\* Battle.update, the dodge branch: the sprites first, then the manager
DodgeTick(b, a, player_x, player_y) ==
    LET moved == [a EXCEPT !.bullets_group = GroupUpdate(a.bullets_group)]
    IN  {IF r.ret THEN [battle |-> b, am |-> r.s] ELSE EndDodgePhase(b, r.s)
         : r \in Update(moved, player_x, player_y)}

\* Battle.update: the battles and managers one call can leave
BattleUpdate(b0, a, player_x, player_y) ==
    LET b == MessageTick(b0)
    IN  IF b.safety_pause_active
        THEN IF b.safety_pause_timer - 1 <= 0
             THEN {[battle |-> StartWarmup([b EXCEPT !.safety_pause_timer = @ - 1,
                                                     !.safety_pause_active = FALSE]),
                    am |-> a]}
             ELSE {[battle |-> [b EXCEPT !.safety_pause_timer = @ - 1], am |-> a]}
        ELSE IF b.warmup_active
        THEN IF b.warmup_timer - 1 <= 0
             THEN StartEnemyAttackAfterWarmup(
                      [b EXCEPT !.warmup_timer = @ - 1, !.warmup_active = FALSE], a)
             ELSE {[battle |-> [b EXCEPT !.warmup_timer = @ - 1], am |-> a]}
        ELSE IF b.battle_mode = "fight_attack" /\ b.fight_bar_active
        THEN {[battle |-> FightBarTick(b), am |-> a]}
        ELSE IF b.battle_mode = "dodge"
        THEN DodgeTick(b, a, player_x, player_y)
        ELSE {[battle |-> b, am |-> a]}

(***************************************************************************)
(* The FIGHT mini-game and the keys of the battle screen.                  *)
(***************************************************************************)
PLAYER_ATTACK_DAMAGE == 5

\* Battle._start_fight_minigame
StartFightMinigame(b) ==
    [b EXCEPT !.battle_mode = "fight_attack", !.fight_bar_active = TRUE,
              !.fight_bar_position = 0, !.fight_bar_direction = 1]

\* damage_multiplier of _process_fight_attack, position and result in thousandths
DamageMultiplier(fight_bar_position) ==
    LET distance_from_center == Abs(fight_bar_position - 500)
    IN  1000 - TruncDiv(distance_from_center * 8, 10)

\* Battle._process_fight_attack: the battle it leaves, the kind of result
\* returned and the damage in it
ProcessFightAttack(b) ==
    IF b.current_enemy = NoEnemy
    THEN [battle |-> [b EXCEPT !.battle_mode = "menu", !.fight_bar_active = FALSE],
          ret |-> "None", damage |-> 0]
    ELSE LET damage == TruncDiv(PLAYER_ATTACK_DAMAGE
                                  * DamageMultiplier(b.fight_bar_position), 1000)
             hit == EnemyTakeDamage(b.current_enemy, damage)
             second == hit.e.is_boss /\ hit.e.phase = 2 /\ hit.e.phase2_triggered
         IN  [battle |->
                  [b EXCEPT !.current_enemy =
                                IF second THEN [hit.e EXCEPT !.phase2_triggered = FALSE]
                                ELSE hit.e,
                            !.battle_mode = "menu",
                            !.fight_bar_active = FALSE,
                            !.show_phase2_message = IF second THEN TRUE ELSE @,
                            !.phase2_message_timer = IF second THEN 120 ELSE @],
              ret |-> IF hit.ret THEN "enemy_killed" ELSE "fight_damage",
              damage |-> damage]

\* Battle.handle_input in the mini-game: Z strikes, X cancels, other keys do nothing
HandleFightInput(b, key) ==
    IF key = "z"
    THEN ProcessFightAttack(b)
    ELSE IF key = "x"
    THEN [battle |-> [b EXCEPT !.battle_mode = "menu", !.fight_bar_active = FALSE],
          ret |-> "fight_cancel", damage |-> 0]
    ELSE [battle |-> b, ret |-> "None", damage |-> 0]

\* GameManager._process_battle_result for the results of the mini-game:
\* damage that left the enemy alive hands the turn to the enemy
ProcessBattleResult(b, ret) ==
    IF ret = "fight_damage" /\ b.current_enemy # NoEnemy
    THEN StartSafetyPause(b)
    ELSE b

(***************************************************************************)
(* The keys of the battle screen.  A result is the battle handle_input     *)
(* leaves, the kind of string it returns ("None" for None) and, with       *)
(* 'item', 'fight_damage' and 'enemy_killed', the number in the string.    *)
(***************************************************************************)
InputResult(b, ret, arg) == [battle |-> b, ret |-> ret, arg |-> arg]

\* a _process_menu_action whose MERCY spares any enemy
ProcessMenuAction_AlwaysSpare(b, action, index) ==
    IF action = "None" THEN InputResult(b, "None", 0)
    ELSE IF action = "item" THEN InputResult(b, "item", index)
    ELSE IF action = "FIGHT" THEN InputResult(StartFightMinigame(b), "None", 0)
    ELSE IF action = "ACT"
    THEN InputResult([b EXCEPT !.ui = OpenSubmenu(@, <<TextEntry("Check"),
                                                        TextEntry("Talk")>>)],
                     "act_menu", 0)
    ELSE IF action = "Check" THEN InputResult(b, "check", 0)
    ELSE IF action = "Talk"
    THEN IF b.current_enemy # NoEnemy
         THEN InputResult([b EXCEPT !.current_enemy.is_sparable = TRUE,
                                    !.ui = SetMercySpare(@, TRUE)], "talk", 0)
         ELSE InputResult(b, "talk", 0)
    ELSE IF action = "MERCY" THEN InputResult(b, "spare", 0)
    ELSE IF action = "ITEM" THEN InputResult(b, "item_menu", 0)
    ELSE IF action = "back" THEN InputResult(b, "back", 0)
    ELSE InputResult(b, "None", 0)

\* Battle._process_menu_action; index comes with the action 'item'
ProcessMenuAction(b, action, index) ==
    IF action = "None" THEN InputResult(b, "None", 0)
    ELSE IF action = "item" THEN InputResult(b, "item", index)
    ELSE IF action = "FIGHT" THEN InputResult(StartFightMinigame(b), "None", 0)
    ELSE IF action = "ACT"
    THEN InputResult([b EXCEPT !.ui = OpenSubmenu(@, <<TextEntry("Check"),
                                                        TextEntry("Talk")>>)],
                     "act_menu", 0)
    ELSE IF action = "Check" THEN InputResult(b, "check", 0)
    ELSE IF action = "Talk"
    THEN IF b.current_enemy # NoEnemy
         THEN InputResult([b EXCEPT !.current_enemy.is_sparable = TRUE,
                                    !.ui = SetMercySpare(@, TRUE)], "talk", 0)
         ELSE InputResult(b, "talk", 0)
    ELSE IF action = "MERCY"
    THEN IF b.current_enemy # NoEnemy /\ b.current_enemy.is_sparable
         THEN InputResult(b, "spare", 0)
         ELSE InputResult(b, "mercy_fail", 0)
    ELSE IF action = "ITEM" THEN InputResult(b, "item_menu", 0)
    ELSE IF action = "back" THEN InputResult(b, "back", 0)
    ELSE InputResult(b, "None", 0)

\* a handle_input that hands every key outside the mini-game to the menu
HandleInput_AnyMode(b, key) ==
    IF b.battle_mode = "fight_attack"
    THEN LET r == HandleFightInput(b, key)
         IN  InputResult(r.battle, r.ret, r.damage)
    ELSE LET u == UIHandleInput(b.ui, key)
             b1 == [b EXCEPT !.ui = u.ui]
         IN  IF u.action # "None"
             THEN ProcessMenuAction(b1, u.action, u.index)
             ELSE InputResult(b1, "None", 0)

\* Battle.handle_input
HandleInput(b, key) ==
    IF b.battle_mode = "fight_attack"
    THEN LET r == HandleFightInput(b, key)
         IN  InputResult(r.battle, r.ret, r.damage)
    ELSE IF b.battle_mode = "menu"
    THEN LET u == UIHandleInput(b.ui, key)
             b1 == [b EXCEPT !.ui = u.ui]
         IN  IF u.action # "None"
             THEN ProcessMenuAction(b1, u.action, u.index)
             ELSE InputResult(b1, "None", 0)
    ELSE InputResult(b, "None", 0)

(***************************************************************************)
(* The player in the arena.  battle_x and battle_y are floats, kept in     *)
(* thousandths of a pixel; forces are in thousandths too.                  *)
(***************************************************************************)
PLAYER_BATTLE_SPEED == 5

\* Player.__init__: hit points and the battle fields, no arena yet
NewPlayer ==
    [hp |-> PLAYER_MAX_HP, max_hp |-> PLAYER_MAX_HP, invulnerability_timer |-> 0,
     battle_x |-> 0, battle_y |-> 0, battle_size |-> PLAYER_BATTLE_SIZE,
     battle_speed |-> PLAYER_BATTLE_SPEED, battle_box |-> FALSE,
     inventory |-> <<>>]

\* Player.add_item
AddItem(p, item_data) == [p EXCEPT !.inventory = Append(@, item_data)]

\* Player.has_items
HasItems(p) == Len(p.inventory) > 0

\* Player.use_item: the player it leaves and whether an item was returned
UseItem(p, index) ==
    IF 0 <= index /\ index < Len(p.inventory)
    THEN LET item == p.inventory[index + 1]
         IN  [player |-> [p EXCEPT !.inventory = SubSeq(@, 1, index)
                                                   \o SubSeq(@, index + 2, Len(@)),
                                   !.hp = Min(p.max_hp, p.hp + item.heal_value)],
              used |-> TRUE]
    ELSE [player |-> p, used |-> FALSE]

\* Player.heal: the player it leaves and the amount returned
Heal(p, amount) ==
    LET hp == Min(p.max_hp, p.hp + amount)
    IN  [player |-> [p EXCEPT !.hp = hp], ret |-> hp - p.hp]

\* Player.reset_for_restart
ResetForRestart(p) ==
    [p EXCEPT !.hp = p.max_hp, !.invulnerability_timer = 0, !.inventory = <<>>]

\* Player.set_battle_box(box_rect)
SetBattleBox(p) ==
    [p EXCEPT !.battle_box = TRUE,
              !.battle_x = (CenterX(box_rect) - p.battle_size \div 2) * 1000,
              !.battle_y = (CenterY(box_rect) - p.battle_size \div 2) * 1000]

\* the subsets of the four directions a keyboard state can hold down
Directions == {"up", "down", "left", "right"}

\* Player.handle_battle_input: keys is the set of directions held down
HandleBattleInput(p, keys) ==
    LET dy == IF "down" \in keys THEN p.battle_speed
              ELSE IF "up" \in keys THEN -p.battle_speed ELSE 0
        dx == IF "right" \in keys THEN p.battle_speed
              ELSE IF "left" \in keys THEN -p.battle_speed ELSE 0
        new_x == p.battle_x + dx * 1000
        new_y == p.battle_y + dy * 1000
    IN  IF ~p.battle_box
        THEN p
        ELSE [p EXCEPT
                !.battle_x = IF /\ new_x >= box_rect.left * 1000
                                /\ new_x + p.battle_size * 1000 <= Right(box_rect) * 1000
                             THEN new_x ELSE @,
                !.battle_y = IF /\ new_y >= box_rect.top * 1000
                                /\ new_y + p.battle_size * 1000 <= Bottom(box_rect) * 1000
                             THEN new_y ELSE @]

\* Player.get_battle_rect: the Rect keeps the integer part of the position
GetBattleRect(p) ==
    [left |-> TruncDiv(p.battle_x, 1000), top |-> TruncDiv(p.battle_y, 1000),
     width |-> p.battle_size, height |-> p.battle_size]

\* Player.get_battle_position: the centre of the heart
GetBattlePosition(p) ==
    <<p.battle_x + (p.battle_size \div 2) * 1000,
      p.battle_y + (p.battle_size \div 2) * 1000>>

\* Player.apply_gravity_force
ApplyGravityForce(p, force_x, force_y) ==
    LET x == p.battle_x + force_x
        y == p.battle_y + force_y
        margin == (p.battle_size \div 2) * 1000
    IN  IF p.battle_box
        THEN [p EXCEPT
                !.battle_x = Max(box_rect.left * 1000 + margin,
                                 Min(Right(box_rect) * 1000 - margin, x)),
                !.battle_y = Max(box_rect.top * 1000 + margin,
                                 Min(Bottom(box_rect) * 1000 - margin, y))]
        ELSE [p EXCEPT !.battle_x = x, !.battle_y = y]

RECURSIVE SqrtBetween(_, _, _)
\* math.sqrt rounded down: the largest r in lo..hi with r * r <= n
SqrtBetween(n, lo, hi) ==
    IF lo >= hi
    THEN lo
    ELSE LET mid == (lo + hi + 1) \div 2
         IN  IF mid * mid <= n
             THEN SqrtBetween(n, mid, hi)
             ELSE SqrtBetween(n, lo, mid - 1)

\* GravityWell.apply_force: the distance is taken in hundredths of a pixel
WellApplyForce(w, player_x, player_y) ==
    IF ~w.active
    THEN <<0, 0>>
    ELSE LET dx == TruncDiv(w.x * 1000 - player_x, 10)
             dy == TruncDiv(w.y * 1000 - player_y, 10)
             d == SqrtBetween(dx * dx + dy * dy, 0, 40000)
             dist == IF d < 1000 THEN 1000 ELSE d
             magnitude == TruncDiv(w.strength * 10000, dist)
             force_magnitude == IF w.repel THEN -magnitude ELSE magnitude
         IN  <<TruncDiv(dx * force_magnitude, dist),
               TruncDiv(dy * force_magnitude, dist)>>

RECURSIVE TotalForce(_, _, _, _)
\* the sum get_gravity_force accumulates over wells[i..]
TotalForce(wells, i, player_x, player_y) ==
    IF i > Len(wells)
    THEN <<0, 0>>
    ELSE LET f == WellApplyForce(wells[i], player_x, player_y)
             rest == TotalForce(wells, i + 1, player_x, player_y)
         IN  <<f[1] + rest[1], f[2] + rest[2]>>

\* AttackManager.get_gravity_force
GetGravityForce(s, player_x, player_y) ==
    TotalForce(s.gravity_wells, 1, player_x, player_y)

\* LaserBeam.check_collision
LaserCheckCollision(l, player_rect) ==
    IF l.state # "active"
    THEN FALSE
    ELSE LET beam_rect ==
                 IF l.is_horizontal
                 THEN [left |-> box_rect.left, top |-> l.pos - l.beam_width \div 2,
                       width |-> box_rect.width, height |-> l.beam_width]
                 ELSE [left |-> l.pos - l.beam_width \div 2, top |-> box_rect.top,
                       width |-> l.beam_width, height |-> box_rect.height]
         IN  CollideRect(beam_rect, player_rect)

\* AttackManager.check_laser_collision
CheckLaserCollision(s, player_rect) ==
    \E i \in 1..Len(s.lasers) : LaserCheckCollision(s.lasers[i], player_rect)

RECURSIVE CollideFrom_KillsAll(_, _, _, _, _)
\* a projectile loop that removes every projectile touching the player
CollideFrom_KillsAll(group, i, p, player_rect, enemy_damage) ==
    IF i > Len(group)
    THEN [player |-> p, kept |-> <<>>]
    ELSE LET touches == CollideRect(RectOf(group[i]), player_rect)
             r == IF touches THEN TakeDamage(p, enemy_damage) ELSE [p |-> p, ret |-> FALSE]
             rest == CollideFrom_KillsAll(group, i + 1, r.p, player_rect, enemy_damage)
         IN  [player |-> rest.player,
              kept |-> IF touches THEN rest.kept ELSE <<group[i]>> \o rest.kept]

RECURSIVE CollideFrom(_, _, _, _, _)
\* Battle.check_collisions, the projectile loop from sprite i on: the player
\* it leaves and the sprites it does not kill
CollideFrom(group, i, p, player_rect, enemy_damage) ==
    IF i > Len(group)
    THEN [player |-> p, kept |-> <<>>]
    ELSE LET touches == CollideRect(RectOf(group[i]), player_rect)
             r == IF touches THEN TakeDamage(p, enemy_damage) ELSE [p |-> p, ret |-> FALSE]
             rest == CollideFrom(group, i + 1, r.p, player_rect, enemy_damage)
         IN  [player |-> rest.player,
              kept |-> IF r.ret THEN rest.kept ELSE <<group[i]>> \o rest.kept]

\* Battle.check_collisions: the manager and the player it leaves
CheckCollisions(b, a, player_rect, p) ==
    IF b.battle_mode # "dodge" \/ b.current_enemy = NoEnemy
    THEN [am |-> a, player |-> p]
    ELSE LET enemy_damage == b.current_enemy.attack_damage
             r == CollideFrom(a.bullets_group, 1, p, player_rect, enemy_damage)
         IN  [am |-> [a EXCEPT !.bullets_group = r.kept],
              player |-> IF CheckLaserCollision(a, player_rect)
                         THEN TakeDamage(r.player, enemy_damage).p
                         ELSE r.player]

\* the sprites of the group as a Battle.update finds them
AtTickStart(a) ==
    [a EXCEPT !.bullets_group =
        [i \in 1..Len(a.bullets_group) |->
            [a.bullets_group[i] EXCEPT !.upd = 0, !.old = TRUE]]]

\* GameManager.switch_to_battle(enemy): the battle, manager and player it leaves
SwitchToBattle(b, a, p, enemy) ==
    LET r == BattleReset(SetEnemy(b, enemy), a)
    IN  [battle |-> r.battle, am |-> r.am,
         player |-> ResetBattleState(SetBattleBox(p))]

\* GameManager._update_battle up to Battle.update: the player's timer and
\* movement, then the battle; the manager is handed whole pixels
UpdateBattle(b, a, p, keys) ==
    LET timed == UpdateInvulnerability(p)
        walked == HandleBattleInput(timed, keys)
        at == GetBattlePosition(walked)
        force == GetGravityForce(a, at[1], at[2])
        moved == IF ~CanPlayerMove(b)
                 THEN timed
                 ELSE IF b.battle_mode = "dodge" /\ IsGravityMode(a)
                 THEN ApplyGravityForce(walked, force[1], force[2])
                 ELSE walked
        pos == GetBattlePosition(moved)
    IN  {[battle |-> r.battle, am |-> r.am, player |-> moved]
         : r \in BattleUpdate(b, AtTickStart(a),
                              TruncDiv(pos[1], 1000), TruncDiv(pos[2], 1000))}

(***************************************************************************)
(* The manager on its own.  obs records the last call: its name, argument, *)
(* return value, the pattern functions it ran, and calls, the number of    *)
(* update calls made on the running round since it was started.            *)
(***************************************************************************)
\* the pattern counts callers pass, any order of calls
PatternCounts == {1, 2}

\* the pattern counts callers pass, rounds run one after another
\* (0 and 15 are clamped)
RoundCounts == {0, 1, 2, 3, 4, 11, 15}

\* the positions of the player (its centre) the callers pass
PlayerPositions ==
    {<<CenterX(box_rect), CenterY(box_rect)>>}
    \cup (IF cfg.wide
          THEN {<<box_rect.left + PLAYER_BATTLE_SIZE \div 2,
                  box_rect.top + PLAYER_BATTLE_SIZE \div 2>>}
          ELSE {})

NoBattle == [battle_mode |-> "menu"]

NoPlayer == [hp |-> PLAYER_MAX_HP, max_hp |-> PLAYER_MAX_HP, invulnerability_timer |-> 0]

ShortCfg ==
    [ATTACK_DURATION |-> ShortAttack, GAP_BETWEEN_ATTACKS |-> ShortGap,
     LINE_RAIN_INTERVAL |-> 2, CIRCLE_BURST_INTERVAL |-> 2, TARGETING_INTERVAL |-> 2,
     INVULNERABILITY_TIME |-> MaxInvulnerability, wide |-> FALSE]

\* long patterns (lasers and blades appear), narrow draws
LongCfg ==
    [ATTACK_DURATION |-> LongAttack, GAP_BETWEEN_ATTACKS |-> ShortGap,
     LINE_RAIN_INTERVAL |-> 60, CIRCLE_BURST_INTERVAL |-> 60, TARGETING_INTERVAL |-> 60,
     INVULNERABILITY_TIME |-> MaxInvulnerability, wide |-> FALSE]

Called(op, arg, ret, ran, calls) ==
    [op |-> op, arg |-> arg, ret |-> ret, ran |-> ran, calls |-> calls]

\* the state after AttackManager.__init__
Init ==
    /\ cfg = ShortCfg
    /\ am \in NewAttackManager
    /\ obs = Called("init", 0, FALSE, <<>>, 0)
    /\ battle = NoBattle
    /\ player = NoPlayer

\* start_round_with_pattern_count(n); callers start a round on an empty group
DoStartRoundWithPatternCount(counts) ==
    /\ am.bullets_group = <<>>
    /\ \E n \in counts :
         /\ am' \in StartRoundWithPatternCount(am, n)
         /\ obs' = Called("start_round_with_pattern_count", n, FALSE, <<>>, 0)
    /\ UNCHANGED <<cfg, battle, player>>

\* start_round()
DoStartRound ==
    /\ am.bullets_group = <<>>
    /\ am' \in StartNewRound(am)
    /\ obs' = Called("start_round", 0, FALSE, <<>>, 0)
    /\ UNCHANGED <<cfg, battle, player>>

\* update(player_x, player_y)
DoUpdate ==
    /\ \E pos \in PlayerPositions :
         \E r \in Update(am, pos[1], pos[2]) :
            /\ am' = r.s
            /\ obs' = Called("update", 0, r.ret, r.ran,
                             IF am.round_active THEN obs.calls + 1 ELSE obs.calls)
    /\ UNCHANGED <<cfg, battle, player>>

\* reset()
DoReset ==
    /\ am' = Reset(am)
    /\ obs' = Called("reset", 0, FALSE, <<>>, obs.calls)
    /\ UNCHANGED <<cfg, battle, player>>

\* clear_bullets()
DoClearBullets ==
    /\ am' = ClearBullets(am)
    /\ obs' = Called("clear_bullets", 0, FALSE, <<>>, obs.calls)
    /\ UNCHANGED <<cfg, battle, player>>

Next ==
    \/ DoStartRoundWithPatternCount(PatternCounts)
    \/ DoStartRound
    \/ DoUpdate
    \/ DoReset
    \/ DoClearBullets

\* any order of calls on the manager
Spec == Init /\ [][Next]_vars

\* a new round is started once the previous one is over
DoStartNextRound == ~am.round_active /\ DoStartRoundWithPatternCount(RoundCounts)

NextRound == DoStartNextRound \/ DoUpdate

\* rounds run to completion, one after another, nothing else interleaved
SpecRound == Init /\ [][NextRound]_vars

\* the state after AttackManager.__init__, long patterns
InitLong ==
    /\ cfg = LongCfg
    /\ am \in NewAttackManager
    /\ obs = Called("init", 0, FALSE, <<>>, 0)
    /\ battle = NoBattle
    /\ player = NoPlayer

Cleared == obs.op \in {"reset", "clear_bullets"}

NextClear ==
    \/ ~Cleared /\ DoUpdate
    \/ ~Cleared /\ DoReset
    \/ ~Cleared /\ DoClearBullets

\* a round of long patterns, cleared at any moment by reset() or clear_bullets()
SpecClear == InitLong /\ [][NextClear]_vars

(***************************************************************************)
(* Rounds of the single pattern line_rain, one after another.              *)
(***************************************************************************)
\* the rounds start_round_with_pattern_count(1) starts when its sample
\* draws line_rain
RainRounds(s) ==
    {r \in StartRoundWithPatternCount(s, 1) : r.attack_queue = <<"line_rain">>}

\* the state after AttackManager.__init__ and start_round_with_pattern_count(1)
InitRain ==
    /\ cfg = [ShortCfg EXCEPT !.ATTACK_DURATION = RainAttack]
    /\ am \in UNION {RainRounds(a) : a \in NewAttackManager}
    /\ obs = Called("start_round_with_pattern_count", 1, FALSE, <<>>, 0)
    /\ battle = NoBattle
    /\ player = NoPlayer

\* start_round_with_pattern_count(1) once the round is over
DoStartRain ==
    /\ ~am.round_active
    /\ am' \in RainRounds(am)
    /\ obs' = Called("start_round_with_pattern_count", 1, FALSE, <<>>, 0)
    /\ UNCHANGED <<cfg, battle, player>>

NextRain == DoStartRain \/ DoUpdate

SpecRain == InitRain /\ [][NextRain]_vars

(***************************************************************************)
(* The manager with its difficulty set from outside at any moment.         *)
(***************************************************************************)
\* arguments of set_difficulty, in tenths: below the range, the value Battle
\* passes for a boss in its second phase, above the range
Difficulties == {0, 13, 45}

\* set_difficulty(difficulty); Battle calls it right after the start of a
\* round, on an empty group
DoSetDifficulty ==
    /\ am.bullets_group = <<>>
    /\ \E difficulty \in Difficulties :
         /\ am' = SetDifficulty(am, difficulty)
         /\ obs' = Called("set_difficulty", difficulty, FALSE, <<>>, obs.calls)
    /\ UNCHANGED <<cfg, battle, player>>

NextDifficulty ==
    \/ DoStartRoundWithPatternCount(PatternCounts)
    \/ DoStartRound
    \/ DoUpdate
    \/ DoReset
    \/ DoClearBullets
    \/ DoSetDifficulty

\* the state after AttackManager.__init__: short patterns, the spawn
\* intervals of the long ones
InitDifficulty ==
    /\ cfg = [LongCfg EXCEPT !.ATTACK_DURATION = ShortAttack]
    /\ am \in NewAttackManager
    /\ obs = Called("init", 0, FALSE, <<>>, 0)
    /\ battle = NoBattle
    /\ player = NoPlayer

\* any order of calls on the manager, set_difficulty among them
SpecDifficulty == InitDifficulty /\ [][NextDifficulty]_vars

(***************************************************************************)
(* The battle screen: GameManager.switch_to_battle, the menu handlers that *)
(* call start_safety_pause, and Battle.update once per frame.              *)
(***************************************************************************)
\* a mob, a boss, and a boss that FIGHT has taken to its second phase
Enemies ==
    {Enemy(FALSE), Enemy(TRUE),
     [EnemyTakeDamage(Enemy(TRUE), BOSS_HP \div 2).e EXCEPT !.phase2_triggered = FALSE]}

BattleCalled(op, mode) ==
    [op |-> op, mode |-> mode, arg |-> 0, ret |-> FALSE, ran |-> <<>>, calls |-> 0]

\* the state after Battle.__init__, long patterns
InitDodge ==
    /\ cfg = LongCfg
    /\ am \in NewAttackManager
    /\ battle = NewBattle
    /\ player = NewPlayer
    /\ obs = BattleCalled("init", "menu")

\* GameManager.switch_to_battle(enemy)
DoSwitchToBattle ==
    /\ battle.current_enemy = NoEnemy
    /\ \E enemy \in Enemies :
         LET r == SwitchToBattle(battle, am, player, enemy)
         IN  /\ battle' = r.battle
             /\ am' = r.am
             /\ player' = r.player
    /\ obs' = BattleCalled("switch_to_battle", battle.battle_mode)
    /\ UNCHANGED cfg

\* a menu action that hands the turn to the enemy
DoStartSafetyPause ==
    /\ battle.current_enemy # NoEnemy
    /\ battle.battle_mode = "menu"
    /\ battle' = StartSafetyPause(battle)
    /\ obs' = BattleCalled("start_safety_pause", battle.battle_mode)
    /\ UNCHANGED <<cfg, am, player>>

\* Battle.update(player_x, player_y)
DoBattleUpdate ==
    /\ battle.current_enemy # NoEnemy
    /\ \E pos \in PlayerPositions :
         \E r \in BattleUpdate(battle, AtTickStart(am), pos[1], pos[2]) :
            /\ battle' = r.battle
            /\ am' = r.am
    /\ obs' = BattleCalled("battle_update", battle.battle_mode)
    /\ UNCHANGED <<cfg, player>>

NextDodge == DoSwitchToBattle \/ DoStartSafetyPause \/ DoBattleUpdate

SpecDodge == InitDodge /\ [][NextDodge]_vars

(***************************************************************************)
(* The battle screen as GameManager drives it: the keys of the menu and of *)
(* the FIGHT mini-game, Battle.update once per frame, and Battle.reset     *)
(* when the battle is left.  obs records the last call, the mode it found, *)
(* calls, the number of Battle.update calls made since the battle entered  *)
(* its present mode (counted in 'safety_pause' and 'warmup'), the number   *)
(* of enemy turns begun, and the number of hazards the call found.         *)
(***************************************************************************)
\* a mob and a boss in its first phase: one pattern a round
FrameEnemies == {Enemy(FALSE), Enemy(TRUE)}

\* the hazards of the manager: projectiles, beams and wells
HazardCount(a) == Len(a.bullets_group) + Len(a.lasers) + Len(a.gravity_wells)

BattleSeen(op, mode, calls, turns) ==
    [op |-> op, mode |-> mode, calls |-> calls, turns |-> turns,
     hazards |-> HazardCount(am)]

\* the keys handle_input tells apart in the mini-game
FightKeys == {"z", "x"}

\* the bar positions at which the player presses a key: next to the centre
\* and at the far end
StrikePositions == {510, 1000}

\* the state after Battle.__init__, long patterns
InitBattle ==
    /\ cfg = LongCfg
    /\ am \in NewAttackManager
    /\ battle = NewBattle
    /\ player = NewPlayer
    /\ obs = BattleSeen("init", "menu", 0, 0)

\* GameManager.switch_to_battle(enemy)
DoEnterBattle ==
    /\ battle.current_enemy = NoEnemy
    /\ \E enemy \in FrameEnemies :
         LET r == SwitchToBattle(battle, am, player, enemy)
         IN  /\ battle' = r.battle
             /\ am' = r.am
             /\ player' = r.player
    /\ obs' = BattleSeen("switch_to_battle", battle.battle_mode, 0, obs.turns)
    /\ UNCHANGED cfg

\* the FIGHT button of the menu: _process_menu_action starts the mini-game
DoMenuFight ==
    /\ battle.current_enemy # NoEnemy
    /\ battle.battle_mode = "menu"
    /\ battle' = StartFightMinigame(battle)
    /\ obs' = BattleSeen("fight", battle.battle_mode, 0, obs.turns)
    /\ UNCHANGED <<cfg, am, player>>

\* a key in the mini-game: handle_input, then _process_battle_result
DoFightKey ==
    /\ battle.battle_mode = "fight_attack"
    /\ battle.fight_bar_position \in StrikePositions
    /\ \E key \in FightKeys :
         LET r == HandleFightInput(battle, key)
             b == ProcessBattleResult(r.battle, r.ret)
         IN  /\ b.battle_mode = "safety_pause" => obs.turns < MaxTurns
             /\ battle' = b
             /\ obs' = BattleSeen(IF b.battle_mode = "safety_pause"
                                  THEN "start_safety_pause" ELSE "fight_key",
                                  battle.battle_mode, 0,
                                  IF b.battle_mode = "safety_pause"
                                  THEN obs.turns + 1 ELSE obs.turns)
    /\ UNCHANGED <<cfg, am, player>>

\* an item used from the menu: _process_battle_result calls start_safety_pause
DoMenuItem ==
    /\ battle.current_enemy # NoEnemy
    /\ battle.battle_mode = "menu"
    /\ obs.turns < MaxTurns
    /\ battle' = StartSafetyPause(battle)
    /\ obs' = BattleSeen("start_safety_pause", battle.battle_mode, 0, obs.turns + 1)
    /\ UNCHANGED <<cfg, am, player>>

\* what obs records of a Battle.update that left the battle r
FrameSeen(r) ==
    BattleSeen("battle_update", battle.battle_mode,
               IF /\ r.battle.battle_mode = battle.battle_mode
                  /\ battle.battle_mode \in {"safety_pause", "warmup"}
               THEN obs.calls + 1 ELSE 0,
               obs.turns)

\* Battle.update(player_x, player_y) of one frame
DoFrame ==
    /\ battle.current_enemy # NoEnemy
    /\ \E pos \in PlayerPositions :
         \E r \in BattleUpdate(battle, AtTickStart(am), pos[1], pos[2]) :
            /\ battle' = r.battle
            /\ am' = r.am
            /\ obs' = FrameSeen(r)
    /\ UNCHANGED <<cfg, player>>

\* Battle.reset(): switch_to_overworld after a spare or a victory, a save
\* loaded from the pause menu, a restart; in the mini-game, at the moments
\* the player presses a key
DoLeaveBattle ==
    /\ battle.current_enemy # NoEnemy
    /\ battle.battle_mode = "fight_attack" =>
           battle.fight_bar_position \in StrikePositions
    /\ LET r == BattleReset(battle, am)
       IN  /\ battle' = r.battle
           /\ am' = r.am
    /\ obs' = BattleSeen("reset", battle.battle_mode, 0, obs.turns)
    /\ UNCHANGED <<cfg, player>>

NextBattle ==
    \/ DoEnterBattle
    \/ DoMenuFight
    \/ DoFightKey
    \/ DoMenuItem
    \/ DoFrame
    \/ DoLeaveBattle

SpecBattle == InitBattle /\ [][NextBattle]_vars

\* the state after Battle.__init__, short patterns
InitBattleShort ==
    /\ cfg = ShortCfg
    /\ am \in NewAttackManager
    /\ battle = NewBattle
    /\ player = NewPlayer
    /\ obs = BattleSeen("init", "menu", 0, 0)

\* ENABLED <<DoFrame>>_vars as a state predicate: a frame is due and changes
\* the state
FrameEnabled ==
    /\ battle.current_enemy # NoEnemy
    /\ \E pos \in PlayerPositions :
         \E r \in BattleUpdate(battle, AtTickStart(am), pos[1], pos[2]) :
            <<r.battle, r.am, FrameSeen(r)>> # <<battle, am, obs>>

\* weak fairness of DoFrame, WF_vars(DoFrame), with its ENABLED written out
FairFrames == []<>(~FrameEnabled) \/ []<><<DoFrame>>_vars

\* the main loop calls GameManager.update every frame: while the battle is on
\* screen, Battle.update is not put off for ever
SpecBattleFair == InitBattleShort /\ [][NextBattle]_vars /\ FairFrames

(***************************************************************************)
(* Battle frames with the player in the arena.  A frame is                 *)
(* GameManager._update_battle: the player moves by the keys held down and  *)
(* by gravity, Battle.update runs, then Battle.check_collisions.  obs      *)
(* records the last call, the keys held down through the battle, the       *)
(* number of enemy turns begun, for check_collisions the number of         *)
(* projectiles that touched the player and whether an active beam did, and *)
(* pulled, whether the frame called apply_gravity_force.                   *)
(***************************************************************************)
\* the player stands still, or holds two keys into a corner of the arena
HeldKeys == {{}, {"up", "left"}, {"down", "right"}}

FrameCalled(op, mode, keys, turns, touching, beam) ==
    [op |-> op, mode |-> mode, keys |-> keys, turns |-> turns,
     touching |-> touching, beam |-> beam,
     pulled |-> op = "update_battle" /\ battle.battle_mode = "dodge"
                /\ IsGravityMode(am)]

\* the state after Battle.__init__ and Player.__init__, long patterns
InitFrame ==
    /\ cfg = LongCfg
    /\ am \in NewAttackManager
    /\ battle = NewBattle
    /\ player = NewPlayer
    /\ \E keys \in HeldKeys : obs = FrameCalled("init", "menu", keys, 0, 0, FALSE)

\* GameManager.switch_to_battle(enemy)
DoFrameSwitchToBattle ==
    /\ battle.current_enemy = NoEnemy
    /\ \E enemy \in FrameEnemies :
         LET r == SwitchToBattle(battle, am, player, enemy)
         IN  /\ battle' = r.battle
             /\ am' = r.am
             /\ player' = r.player
    /\ obs' = FrameCalled("switch_to_battle", battle.battle_mode, obs.keys, 0, 0, FALSE)
    /\ UNCHANGED cfg

\* a menu action that hands the turn to the enemy, between two frames
DoFrameStartSafetyPause ==
    /\ battle.current_enemy # NoEnemy
    /\ battle.battle_mode = "menu"
    /\ obs.op # "update_battle"
    /\ obs.turns < MaxTurns
    /\ battle' = StartSafetyPause(battle)
    /\ obs' = FrameCalled("start_safety_pause", battle.battle_mode, obs.keys,
                          obs.turns + 1, 0, FALSE)
    /\ UNCHANGED <<cfg, am, player>>

\* the frame up to Battle.update; a dead player ends the battle
DoUpdateBattle ==
    /\ battle.current_enemy # NoEnemy
    /\ obs.op # "update_battle"
    /\ IsAlive(player)
    /\ \E r \in UpdateBattle(battle, am, player, obs.keys) :
         /\ battle' = r.battle
         /\ am' = r.am
         /\ player' = r.player
    /\ obs' = FrameCalled("update_battle", battle.battle_mode, obs.keys, obs.turns,
                          0, FALSE)
    /\ UNCHANGED cfg

\* Battle.check_collisions(player.get_battle_rect(), player) at the end of
\* the frame, made in every mode (GameManager makes it in dodge only)
DoCheckCollisions ==
    /\ obs.op = "update_battle"
    /\ LET player_rect == GetBattleRect(player)
           r == CheckCollisions(battle, am, player_rect, player)
       IN  /\ am' = r.am
           /\ player' = r.player
           /\ obs' = FrameCalled("check_collisions", battle.battle_mode, obs.keys, obs.turns,
                          Cardinality({i \in 1..Len(am.bullets_group) :
                              CollideRect(RectOf(am.bullets_group[i]), player_rect)}),
                          CheckLaserCollision(am, player_rect))
    /\ UNCHANGED <<cfg, battle>>

NextFrame ==
    \/ DoFrameSwitchToBattle
    \/ DoFrameStartSafetyPause
    \/ DoUpdateBattle
    \/ DoCheckCollisions

SpecFrame == InitFrame /\ [][NextFrame]_vars

(***************************************************************************)
(* One LaserBeam: update() and check_collision(player_rect) in any order.  *)
(* The beam is the one in am.lasers; obs.updates counts its update calls.  *)
(***************************************************************************)
\* the player in the middle of the arena, and held in its top-left corner
LaserPlayers ==
    {SetBattleBox(NewPlayer),
     [SetBattleBox(NewPlayer) EXCEPT !.battle_x = box_rect.left * 1000,
                                     !.battle_y = box_rect.top * 1000]}

LaserCalled(op, ret, updates, touching) ==
    [op |-> op, ret |-> ret, updates |-> updates, touching |-> touching]

\* the rectangle of an active beam reaches the rectangle of the player
BeamReaches(l, player_rect) ==
    IF l.is_horizontal
    THEN /\ l.pos - l.beam_width \div 2 < Bottom(player_rect)
         /\ player_rect.top < l.pos - l.beam_width \div 2 + l.beam_width
    ELSE /\ l.pos - l.beam_width \div 2 < Right(player_rect)
         /\ player_rect.left < l.pos - l.beam_width \div 2 + l.beam_width

\* the state after LaserBeam.__init__, the beam appended to lasers
InitLaser ==
    /\ cfg = [LongCfg EXCEPT !.wide = TRUE]
    /\ \E a \in NewAttackManager, l \in NewLasers :
         am = [Reset(a) EXCEPT !.lasers = <<l>>]
    /\ battle = NoBattle
    /\ player \in LaserPlayers
    /\ obs = LaserCalled("init", FALSE, 0, FALSE)

\* laser.update()
DoLaserUpdate ==
    /\ obs.updates < MaxLaserUpdates
    /\ am' = [am EXCEPT !.lasers = <<LaserUpdate(am.lasers[1])>>]
    /\ obs' = LaserCalled("update", FALSE, obs.updates + 1, FALSE)
    /\ UNCHANGED <<cfg, battle, player>>

\* laser.check_collision(player_rect), the player anywhere
DoLaserCheckCollision ==
    /\ \E p \in LaserPlayers :
         /\ player' = p
         /\ obs' = LaserCalled("check_collision",
                               LaserCheckCollision(am.lasers[1], GetBattleRect(p)),
                               obs.updates,
                               BeamReaches(am.lasers[1], GetBattleRect(p)))
    /\ UNCHANGED <<cfg, am, battle>>

NextLaser == DoLaserUpdate \/ DoLaserCheckCollision

SpecLaser == InitLaser /\ [][NextLaser]_vars

(***************************************************************************)
(* One projectile near an edge of its kill region, updated by its group.   *)
(***************************************************************************)
\* velocities of the patterns' projectiles along one axis, in thousandths:
\* the speeds of line_rain and circle_burst, and a diagonal of the latter
Velocities ==
    {-Speed(15), -TruncDiv(Cos(PI \div 4) * Speed(15), 1000), 0,
     Speed(10), TruncDiv(Cos(PI \div 4) * Speed(15), 1000)}

\* a projectile of width w and height h at distance d inside each edge of
\* the kill region, on the middle of that edge
NearEdges(w, h, d) ==
    {<<KillRegion.left + d, CenterY(KillRegion)>>,
     <<Right(KillRegion) - w - d, CenterY(KillRegion)>>,
     <<CenterX(KillRegion), KillRegion.top + d>>,
     <<CenterX(KillRegion), Bottom(KillRegion) - h - d>>}

\* projectiles in flight: the box sizes of LineBullet and CircleBullet, each
\* with every pair of velocities
FlyingProjectiles ==
    {[LineBullet(at[1], at[2], 0, 0) EXCEPT !.vx = vx, !.vy = vy]
       : at \in UNION {NearEdges(40, 6, d) : d \in 0..MaxEdgeDistance},
         vx \in Velocities, vy \in Velocities}
    \cup {[CircleBullet(at[1], at[2], 0, 0) EXCEPT !.vx = vx, !.vy = vy]
       : at \in UNION {NearEdges(8, 8, d) : d \in 0..MaxEdgeDistance},
         vx \in Velocities, vy \in Velocities}

\* was: the box was contained before the call; moved: the box after the move
ProjectileSeen(op, updates, was, moved, removed) ==
    [op |-> op, updates |-> updates, was |-> was, moved |-> moved, removed |-> removed]

\* a group holding one projectile whose box is inside its kill region
InitProjectile ==
    /\ cfg = ShortCfg
    /\ \E a \in NewAttackManager, b \in FlyingProjectiles :
         LET s == Reset(a)
         IN  am = [s EXCEPT !.bullets_group = WithIds(s, <<b>>)]
    /\ battle = NoBattle
    /\ player = NoPlayer
    /\ obs = ProjectileSeen("init", 0, TRUE, RectOf(am.bullets_group[1]), FALSE)

\* bullets_group.update()
DoGroupUpdate ==
    /\ am.bullets_group # <<>>
    /\ obs.updates < MaxProjectileUpdates
    /\ LET b == am.bullets_group[1]
       IN  /\ am' = [am EXCEPT !.bullets_group = GroupUpdate(am.bullets_group)]
           /\ obs' = ProjectileSeen("update", obs.updates + 1,
                                    Contains(KillRegion, RectOf(b)),
                                    [RectOf(b) EXCEPT !.left = RectAdd(b.x, b.vx),
                                                      !.top = RectAdd(b.y, b.vy)],
                                    \A i \in 1..Len(am'.bullets_group) :
                                       am'.bullets_group[i].id # b.id)
    /\ UNCHANGED <<cfg, battle, player>>

NextProjectile == DoGroupUpdate

SpecProjectile == InitProjectile /\ [][NextProjectile]_vars

(***************************************************************************)
(* One GravityWell: update() and apply_force(player_x, player_y) in any    *)
(* order.  The well is the one in am.gravity_wells.                        *)
(***************************************************************************)
\* the player's centre relative to the well, along one axis, in thousandths
WellOffsets == {-12000, -10000, -6000, -2500, 0, 500, 6000, 10000, 12000}

\* dx, dy: the well minus the player, in hundredths of a pixel
WellCalled(op, dx, dy, force) == [op |-> op, dx |-> dx, dy |-> dy, force |-> force]

\* the state after the first lines of _pattern_gravity_wells: one new well
InitWell ==
    /\ cfg = ShortCfg
    /\ \E a \in NewAttackManager, repel \in BOOLEAN :
         am = [Reset(a) EXCEPT !.gravity_wells =
                 <<GravityWell(CenterX(box_rect), CenterY(box_rect), 400, repel,
                               ATTACK_DURATION)>>]
    /\ battle = NoBattle
    /\ player = NoPlayer
    /\ obs = WellCalled("init", 0, 0, <<0, 0>>)

\* well.update(), followed a few calls beyond the well's duration
DoWellUpdate ==
    /\ am.gravity_wells[1].timer <= am.gravity_wells[1].duration
    /\ am' = [am EXCEPT !.gravity_wells = <<WellUpdate(am.gravity_wells[1])>>]
    /\ obs' = WellCalled("update", 0, 0, <<0, 0>>)
    /\ UNCHANGED <<cfg, battle, player>>

\* well.apply_force(player_x, player_y)
DoWellApplyForce ==
    /\ \E ox \in WellOffsets, oy \in WellOffsets :
         LET w == am.gravity_wells[1]
             player_x == w.x * 1000 + ox
             player_y == w.y * 1000 + oy
         IN  obs' = WellCalled("apply_force", TruncDiv(-ox, 10), TruncDiv(-oy, 10),
                               WellApplyForce(w, player_x, player_y))
    /\ UNCHANGED <<cfg, am, battle, player>>

NextWell == DoWellUpdate \/ DoWellApplyForce

SpecWell == InitWell /\ [][NextWell]_vars

(***************************************************************************)
(* The turn of the enemy up to the start of its round: start_safety_pause, *)
(* then Battle.update until the warmup ends, with or without an enemy set; *)
(* Battle.reset ends the round.  The draws are wide.                       *)
(***************************************************************************)
\* the state after Battle.__init__
InitWarmup ==
    /\ cfg = [ShortCfg EXCEPT !.wide = TRUE]
    /\ am \in NewAttackManager
    /\ battle = NewBattle
    /\ player = NewPlayer
    /\ obs = BattleCalled("init", "menu")

\* GameManager.switch_to_battle(enemy), from the menu
DoWarmupSwitchToBattle ==
    /\ battle.battle_mode = "menu"
    /\ \E enemy \in Enemies :
         LET r == SwitchToBattle(battle, am, player, enemy)
         IN  /\ battle' = r.battle
             /\ am' = r.am
             /\ player' = r.player
    /\ obs' = BattleCalled("switch_to_battle", battle.battle_mode)
    /\ UNCHANGED cfg

\* battle.start_safety_pause(), an enemy set or not
DoWarmupStartSafetyPause ==
    /\ battle.battle_mode = "menu"
    /\ battle' = StartSafetyPause(battle)
    /\ obs' = BattleCalled("start_safety_pause", battle.battle_mode)
    /\ UNCHANGED <<cfg, am, player>>

\* Battle.update(player_x, player_y) during the pause and the warmup
DoWarmupUpdate ==
    /\ battle.battle_mode \in {"safety_pause", "warmup"}
    /\ \E pos \in PlayerPositions :
         \E r \in BattleUpdate(battle, AtTickStart(am), pos[1], pos[2]) :
            /\ battle' = r.battle
            /\ am' = r.am
    /\ obs' = BattleCalled("battle_update", battle.battle_mode)
    /\ UNCHANGED <<cfg, player>>

\* Battle.reset() once the round has begun
DoWarmupReset ==
    /\ battle.battle_mode = "dodge"
    /\ LET r == BattleReset(battle, am)
       IN  /\ battle' = r.battle
           /\ am' = r.am
    /\ obs' = BattleCalled("reset", battle.battle_mode)
    /\ UNCHANGED <<cfg, player>>

NextWarmup ==
    \/ DoWarmupSwitchToBattle
    \/ DoWarmupStartSafetyPause
    \/ DoWarmupUpdate
    \/ DoWarmupReset

SpecWarmup == InitWarmup /\ [][NextWarmup]_vars

(***************************************************************************)
(***************************************************************************)
(* Rounds of the single pattern laser_warning, long enough for a beam to   *)
(* be made, to finish and to be followed by a second one.                  *)
(***************************************************************************)
\* the rounds start_round_with_pattern_count(1) starts when it draws laser_warning
LaserRounds(s) ==
    {r \in StartRoundWithPatternCount(s, 1) : r.attack_queue = <<"laser_warning">>}

InitLaserWarning ==
    /\ cfg = [LongCfg EXCEPT !.ATTACK_DURATION = LaserAttack, !.wide = TRUE]
    /\ am \in UNION {LaserRounds(a) : a \in NewAttackManager}
    /\ obs = Called("start_round_with_pattern_count", 1, FALSE, <<>>, 0)
    /\ battle = NoBattle
    /\ player = NoPlayer

\* start_round_with_pattern_count(1) once the round is over
DoStartLaserWarning ==
    /\ ~am.round_active
    /\ am' \in LaserRounds(am)
    /\ obs' = Called("start_round_with_pattern_count", 1, FALSE, <<>>, 0)
    /\ UNCHANGED <<cfg, battle, player>>

NextLaserWarning == DoStartLaserWarning \/ DoUpdate

SpecLaserWarning == InitLaserWarning /\ [][NextLaserWarning]_vars

(***************************************************************************)
(* The game around one battle: GameManager.handle_event for key presses,   *)
(* GameManager.update for frames.  obs holds the fields of GameManager     *)
(* that matter here (state and _victory_timer) next to the last handler    *)
(* run: op, the state and the battle mode it found, the kind of result     *)
(* handle_input returned, and turns, the number of enemy turns begun.      *)
(* The message box is left out: while it is shown Z or X closes it and     *)
(* changes nothing else, so every key sequence stays possible.             *)
(***************************************************************************)
\* the keys handle_event, handle_input and the menu tell apart
GameKeys == {"left", "right", "up", "down", "z", "x", "r", "n", "other"}

\* heal_value of the items of pickup_item.py
HealValues == {10, 50}

\* the keys held during a frame
GameHeld == {{}, {"left"}}

\* the patterns drawn for the rounds: circle_burst fires from the centre of
\* the arena, where the player starts, line_rain from its top
GamePatterns == {"circle_burst", "line_rain"}

\* a mob, and a mob whose hit is deadly
GameEnemies ==
    {Enemy(FALSE), [Enemy(FALSE) EXCEPT !.attack_damage = PLAYER_MAX_HP]}

GameSeen(op, state, victory_timer, was, mode, ret, turns) ==
    [op |-> op, state |-> state, victory_timer |-> victory_timer, was |-> was,
     mode |-> mode, ret |-> ret, turns |-> turns]

GameResult(state, victory_timer, b, a, p) ==
    [state |-> state, victory_timer |-> victory_timer, battle |-> b, am |-> a,
     player |-> p]

\* GameManager.switch_to_overworld
SwitchToOverworld(victory_timer, b, a, p) ==
    LET r == BattleReset(b, a)
    IN  GameResult("overworld", victory_timer, r.battle, r.am, p)

\* GameManager._process_battle_result
GameProcessBattleResult(victory_timer, b, a, p, ret, arg) ==
    IF ret = "spare" THEN SwitchToOverworld(victory_timer, b, a, p)
    ELSE IF ret = "fight_damage"
    THEN GameResult("battle", victory_timer, ProcessBattleResult(b, ret), a, p)
    ELSE IF ret = "enemy_killed"
    THEN GameResult("battle", IF b.current_enemy # NoEnemy THEN 60 ELSE victory_timer,
                    b, a, p)
    ELSE IF ret = "item_menu"
    THEN GameResult("battle", victory_timer,
                    IF HasItems(p) THEN [b EXCEPT !.ui = OpenSubmenu(@, p.inventory)]
                    ELSE b,
                    a, p)
    ELSE IF ret = "item"
    THEN LET u == UseItem(p, arg)
         IN  GameResult("battle", victory_timer,
                        IF u.used THEN StartSafetyPause(b) ELSE b, a, u.player)
    ELSE GameResult("battle", victory_timer, b, a, p)

\* GameManager._restart_from_beginning
RestartFromBeginning(victory_timer, b, a, p) ==
    LET r == BattleReset(b, a)
    IN  GameResult("overworld", victory_timer, r.battle, r.am, ResetForRestart(p))

\* GameManager._load_game of a save: saves are made at a save point, which
\* restores the hit points first
LoadGame(victory_timer, b, a, p, inventory) ==
    LET r == BattleReset(b, a)
    IN  GameResult("overworld", victory_timer, r.battle, r.am,
                   [p EXCEPT !.hp = p.max_hp, !.inventory = inventory])

\* GameManager.handle_event for a KEYDOWN in the battle and on the game over
\* screen; has_save and saved are the save file, if any
HandleEvent(state, victory_timer, b, a, p, key, has_save, saved) ==
    IF state = "game_over"
    THEN IF key = "r"
         THEN IF has_save THEN LoadGame(victory_timer, b, a, p, saved)
              ELSE RestartFromBeginning(victory_timer, b, a, p)
         ELSE IF key = "n" THEN RestartFromBeginning(victory_timer, b, a, p)
         ELSE GameResult(state, victory_timer, b, a, p)
    ELSE IF state = "battle"
    THEN LET r == HandleInput(b, key)
         IN  IF r.ret # "None"
             THEN GameProcessBattleResult(victory_timer, r.battle, a, p, r.ret, r.arg)
             ELSE GameResult(state, victory_timer, r.battle, a, p)
    ELSE GameResult(state, victory_timer, b, a, p)

\* an _update_battle that goes on with a dead player
GameUpdateBattle_NoGameOver(victory_timer, b, a, p, keys) ==
    IF victory_timer > 0 /\ victory_timer - 1 <= 0
    THEN {SwitchToOverworld(victory_timer - 1, b, a, UpdateInvulnerability(p))}
    ELSE {LET c == IF r.battle.battle_mode = "dodge"
                   THEN CheckCollisions(r.battle, r.am, GetBattleRect(r.player), r.player)
                   ELSE [am |-> r.am, player |-> r.player]
          IN  GameResult("battle",
                         IF victory_timer > 0 THEN victory_timer - 1 ELSE victory_timer,
                         r.battle, c.am, c.player)
          : r \in UpdateBattle(b, a, p, keys)}

\* GameManager._update_battle
GameUpdateBattle(victory_timer, b, a, p, keys) ==
    IF victory_timer > 0 /\ victory_timer - 1 <= 0
    THEN {SwitchToOverworld(victory_timer - 1, b, a, UpdateInvulnerability(p))}
    ELSE {LET c == IF r.battle.battle_mode = "dodge"
                   THEN CheckCollisions(r.battle, r.am, GetBattleRect(r.player), r.player)
                   ELSE [am |-> r.am, player |-> r.player]
          IN  GameResult(IF IsAlive(c.player) THEN "battle" ELSE "game_over",
                         IF victory_timer > 0 THEN victory_timer - 1 ELSE victory_timer,
                         r.battle, c.am, c.player)
          : r \in UpdateBattle(b, a, p, keys)}

\* the game in the overworld after the construction of GameManager
InitGame ==
    /\ cfg = ShortCfg
    /\ am \in NewAttackManager
    /\ battle = NewBattle
    /\ player = NewPlayer
    /\ obs = GameSeen("init", "overworld", 0, "overworld", "menu", "None", 0)

\* _update_overworld: Z on an item of the map
DoGamePickup ==
    /\ obs.state = "overworld"
    /\ Len(player.inventory) < MaxItems
    /\ \E h \in HealValues : player' = AddItem(player, ItemEntry(h))
    /\ obs' = GameSeen("pickup", obs.state, obs.victory_timer, obs.state,
                       battle.battle_mode, "None", obs.turns)
    /\ UNCHANGED <<cfg, am, battle>>

\* _update_overworld: the player walks into an enemy
DoGameMeetEnemy ==
    /\ obs.state = "overworld"
    /\ \E enemy \in GameEnemies :
         LET r == SwitchToBattle(battle, am, player, enemy)
         IN  /\ battle' = r.battle
             /\ am' = r.am
             /\ player' = r.player
    /\ obs' = GameSeen("switch_to_battle", "battle", obs.victory_timer, obs.state,
                       battle.battle_mode, "None", 0)
    /\ UNCHANGED cfg

\* a key press; in the mini-game at the moments the player presses a key
DoGameKey ==
    /\ obs.state \in {"battle", "game_over"}
    /\ battle.battle_mode = "fight_attack" =>
           battle.fight_bar_position \in StrikePositions
    /\ \E key \in GameKeys, has_save \in BOOLEAN :
         LET r == HandleEvent(obs.state, obs.victory_timer, battle, am, player, key,
                              has_save, <<>>)
             begun == r.battle.battle_mode = "safety_pause"
                        /\ battle.battle_mode # "safety_pause"
             fight == r.battle.battle_mode = "fight_attack"
                        /\ battle.battle_mode # "fight_attack"
             ret == IF obs.state = "battle" THEN HandleInput(battle, key).ret
                    ELSE "None"
         IN  /\ begun \/ fight => obs.turns < MaxTurns
             /\ battle' = r.battle
             /\ am' = r.am
             /\ player' = r.player
             /\ obs' = GameSeen("key", r.state, r.victory_timer, obs.state,
                                battle.battle_mode, ret,
                                IF begun THEN obs.turns + 1 ELSE obs.turns)
    /\ UNCHANGED cfg

\* GameManager.update(keys) of one frame of the battle
DoGameUpdate ==
    /\ obs.state = "battle"
    /\ \E keys \in GameHeld :
         \E r \in GameUpdateBattle(obs.victory_timer, battle, am, player, keys) :
            /\ Range(r.am.attack_queue) \subseteq GamePatterns
            /\ r.am.secondary_pattern \in GamePatterns \cup {"None"}
            /\ battle' = r.battle
            /\ am' = r.am
            /\ player' = r.player
            /\ obs' = GameSeen("update", r.state, r.victory_timer, obs.state,
                               battle.battle_mode, "None", obs.turns)
    /\ UNCHANGED cfg

NextGame == DoGamePickup \/ DoGameMeetEnemy \/ DoGameKey \/ DoGameUpdate

SpecGame == InitGame /\ [][NextGame]_vars

(***************************************************************************)
(* The homing blades of one round through the dodge frames of              *)
(* Battle.update.  The round is the one-pattern round of a boss in phase   *)
(* 1 whose draw was homing_blades.  obs.aimed and obs.charged count, for   *)
(* every blade in the collection, the frames that began with the blade in  *)
(* 'aiming' and in 'charging'.                                             *)
(***************************************************************************)
\* the positions of the player passed to Battle.update: the centre of the
\* box, and the point where a blade of the top edge is put
BladeTargets ==
    {<<CenterX(box_rect), CenterY(box_rect)>>,
     <<box_rect.left + 30, box_rect.top + 20>>}

\* the ids of the homing blades in the collection
BladeIds(a) ==
    {a.bullets_group[i].id :
        i \in {j \in 1..Len(a.bullets_group) : a.bullets_group[j].kind = "HomingBlade"}}

BladeOfId(a, id) == a.bullets_group[IndexOfId(a.bullets_group, id)]

BladeCalled(op, mode, aimed, charged) ==
    [op |-> op, mode |-> mode, aimed |-> aimed, charged |-> charged]

\* the frames counted for the blades of a2, a being the manager as the frame began
FramesIn(state, counted, a, a2) ==
    [id \in BladeIds(a2) |->
        IF id \in BladeIds(a)
        THEN counted[id] + (IF BladeOfId(a, id).state = state THEN 1 ELSE 0)
        ELSE 0]

\* the warmup of a boss in phase 1 has just ended and the draw was homing_blades
InitBlade ==
    /\ cfg = [LongCfg EXCEPT !.ATTACK_DURATION = BladeAttack]
    /\ \E a \in NewAttackManager :
         \E r \in StartEnemyAttackAfterWarmup(SetEnemy(NewBattle, Enemy(TRUE)), a) :
            /\ r.am.attack_queue = <<"homing_blades">>
            /\ battle = r.battle
            /\ am = r.am
    /\ player = NewPlayer
    /\ obs = BladeCalled("init", "dodge", <<>>, <<>>)

\* Battle.update(player_x, player_y) in the dodge phase
DoBladeFrame ==
    /\ battle.battle_mode = "dodge"
    /\ \E pos \in BladeTargets :
         \E r \in BattleUpdate(battle, AtTickStart(am), pos[1], pos[2]) :
            /\ battle' = r.battle
            /\ am' = r.am
            /\ obs' = BladeCalled("battle_update", battle.battle_mode,
                                  FramesIn("aiming", obs.aimed, am, r.am),
                                  FramesIn("charging", obs.charged, am, r.am))
    /\ UNCHANGED <<cfg, player>>

NextBlade == DoBladeFrame

SpecBlade == InitBlade /\ [][NextBlade]_vars

(***************************************************************************)
(* One BouncingBullet of bouncing_walls, updated by its group until it is  *)
(* removed.  obs holds the sprite as it was before the call, the sprite    *)
(* as update() left it, and whether the group still holds it.              *)
(***************************************************************************)
\* the values self.difficulty can hold when the bullet is made
BounceDifficulties == {5, 10, 13, 30}

BounceSeen(op, before, after, removed) ==
    [op |-> op, before |-> before, after |-> after, removed |-> removed]

\* a group holding the bullet _pattern_bouncing_walls has just added
InitBounce ==
    /\ cfg = [ShortCfg EXCEPT !.wide = TRUE]
    /\ \E a \in NewAttackManager, d \in BounceDifficulties :
         \E b \in NewBouncingBullets(d) :
            LET s == Reset(a)
            IN  am = [s EXCEPT !.bullets_group = WithIds(s, <<b>>)]
    /\ battle = NoBattle
    /\ player = NoPlayer
    /\ obs = BounceSeen("init", am.bullets_group[1], am.bullets_group[1], FALSE)

\* bullets_group.update()
DoBounceUpdate ==
    /\ am.bullets_group # <<>>
    /\ LET b == am.bullets_group[1]
       IN  /\ am' = [am EXCEPT !.bullets_group = GroupUpdate(am.bullets_group)]
           /\ obs' = BounceSeen("update", b, BouncingUpdate(b).b,
                                \A i \in 1..Len(am'.bullets_group) :
                                   am'.bullets_group[i].id # b.id)
    /\ UNCHANGED <<cfg, battle, player>>

NextBounce == DoBounceUpdate

SpecBounce == InitBounce /\ [][NextBounce]_vars

(***************************************************************************)
(* The player's hit points through battle frames.  A frame is              *)
(* GameManager._update_battle: update_invulnerability, then the            *)
(* take_damage calls check_collisions makes.  since is the number of       *)
(* frames begun after the last successful take_damage, Never when no hit   *)
(* is pending; at is the value of since when the call recorded was made.   *)
(***************************************************************************)
Never == INVULNERABILITY_TIME + 1

\* attack_damage of the enemy: a custom value and the two defaults
Damages == {1, MOB_ATTACK_DAMAGE, BOSS_ATTACK_DAMAGE}

PlayerCalled(op, ret, hp, at, since) ==
    [op |-> op, ret |-> ret, hp |-> hp, at |-> at, since |-> since]

\* the state after Player.__init__ and switch_to_battle
InitPlayer ==
    /\ cfg \in {[ShortCfg EXCEPT !.INVULNERABILITY_TIME = i] : i \in 1..MaxInvulnerability}
    /\ am \in {Reset(a) : a \in NewAttackManager}
    /\ battle = NoBattle
    /\ player = NoPlayer
    /\ obs = PlayerCalled("init", FALSE, player.hp, Never, Never)

\* the head of _update_battle: a new frame begins
DoUpdateInvulnerability ==
    /\ IsAlive(player)
    /\ player' = UpdateInvulnerability(player)
    /\ obs' = PlayerCalled("update_invulnerability", FALSE, player.hp, obs.since,
                           IF obs.since < Never THEN obs.since + 1 ELSE Never)
    /\ UNCHANGED <<cfg, am, battle>>

\* a take_damage call of check_collisions in the frame begun last
DoTakeDamage ==
    /\ IsAlive(player)
    /\ obs.op \in {"update_invulnerability", "take_damage"}
    /\ \E damage \in Damages :
         LET r == TakeDamage(player, damage)
         IN  /\ player' = r.p
             /\ obs' = PlayerCalled("take_damage", r.ret, player.hp, obs.since,
                                    IF r.ret THEN 0 ELSE obs.since)
    /\ UNCHANGED <<cfg, am, battle>>

\* switch_to_battle for the next battle
DoResetBattleState ==
    /\ player' = ResetBattleState(player)
    /\ obs' = PlayerCalled("reset_battle_state", FALSE, player.hp, Never, Never)
    /\ UNCHANGED <<cfg, am, battle>>

NextPlayer == DoUpdateInvulnerability \/ DoTakeDamage \/ DoResetBattleState

SpecPlayer == InitPlayer /\ [][NextPlayer]_vars

(***************************************************************************)
(* Properties of the round scheduler.                                      *)
(***************************************************************************)
IsUpdateStep == obs'.op = "update" /\ am.round_active

\* C1: the update call on which pattern_timer reaches ATTACK_DURATION enters the
\* gap; an update call made in the gap adds no projectile, laser or gravity well;
\* the gap ends on the call on which gap_timer reaches GAP_BETWEEN_ATTACKS, and
\* on that call (and on no other call in the gap) current_pattern_index grows by one.
C1_GapDiscipline ==
    [][IsUpdateStep =>
         /\ (~am.in_gap /\ am.pattern_timer + 1 >= ATTACK_DURATION) => am'.in_gap
         /\ am.in_gap =>
              /\ am'.bullets_group = am.bullets_group
              /\ am'.lasers = am.lasers
              /\ am'.gravity_wells = am.gravity_wells
         /\ (am.in_gap /\ am.gap_timer + 1 >= GAP_BETWEEN_ATTACKS) =>
              /\ ~am'.in_gap
              /\ am'.current_pattern_index = am.current_pattern_index + 1
         /\ (am.in_gap /\ am.gap_timer + 1 < GAP_BETWEEN_ATTACKS) =>
              /\ am'.in_gap
              /\ am'.current_pattern_index = am.current_pattern_index]_vars

\* C1 witness: an update call has ended a gap and moved on to the second pattern
C1_Witness ==
    /\ obs.op = "update"
    /\ am.round_active
    /\ am.current_pattern_index = 1
    /\ am.pattern_timer = 0

\* C2: while a round is active the current pattern is set and is
\* attack_queue[current_pattern_index], with the index inside the queue; and the
\* index equals the queue length exactly when no round is active.
C2_QueueInvariant ==
    /\ am.round_active =>
         /\ am.current_pattern # "None"
         /\ am.current_pattern_index < Len(am.attack_queue)
         /\ am.current_pattern = am.attack_queue[am.current_pattern_index + 1]
    /\ (am.current_pattern_index = Len(am.attack_queue)) <=> ~am.round_active

\* C2 witness: update calls have consumed a whole queue
C2_Witness ==
    /\ obs.op = "update"
    /\ ~am.round_active
    /\ Len(am.attack_queue) = 2
    /\ am.current_pattern_index = 2

IsDistinct(seq) == \A i, j \in 1..Len(seq) : i # j => seq[i] # seq[j]

\* C3: start_round_with_pattern_count(n) with 1 <= n <= 11 leaves a queue of
\* exactly n pairwise distinct members of PATTERN_TYPES, round_active true,
\* current_pattern_index 0, in_gap false and every timer 0.
C3_StartRound ==
    (obs.op = "start_round_with_pattern_count" /\ obs.arg \in 1..Len(PATTERN_TYPES)) =>
        /\ Len(am.attack_queue) = obs.arg
        /\ IsDistinct(am.attack_queue)
        /\ Range(am.attack_queue) \subseteq Range(PATTERN_TYPES)
        /\ am.round_active
        /\ am.current_pattern_index = 0
        /\ ~am.in_gap
        /\ am.pattern_timer = 0
        /\ am.gap_timer = 0
        /\ am.pattern_internal_timer = 0
        /\ am.pattern_internal_timer_2 = 0
        /\ am.laser_spawn_timer = 0
        /\ am.ring_timer = 0

\* C3 witness: a round of three patterns has just been started
C3_Witness ==
    /\ obs.op = "start_round_with_pattern_count"
    /\ obs.arg = 3
    /\ Len(am.attack_queue) = 3

\* C4: a round started with a pattern count above the 11 available patterns has
\* a queue of that length, every entry a valid pattern identifier.
C4_OversizedRound ==
    (obs.op = "start_round_with_pattern_count" /\ obs.arg > Len(PATTERN_TYPES)) =>
        /\ Len(am.attack_queue) = obs.arg
        /\ Range(am.attack_queue) \subseteq Range(PATTERN_TYPES)

\* C5: the value update returns equals round_active in the state right after
\* the call.
C5_ReturnIsRoundActive == obs.op = "update" => obs.ret = am.round_active

\* C6: with nothing interleaved, a round of n patterns is active for exactly
\* n * (ATTACK_DURATION + GAP_BETWEEN_ATTACKS) update calls: it is still active
\* before that call and over right after it; within each pattern's slot the gap
\* is entered on call ATTACK_DURATION.
C6_RoundLength ==
    LET n == Len(am.attack_queue)
        slot == ATTACK_DURATION + GAP_BETWEEN_ATTACKS
    IN  /\ am.round_active => obs.calls < n * slot
        /\ ~am.round_active => obs.calls = n * slot
        /\ am.round_active => (am.in_gap <=> obs.calls % slot >= ATTACK_DURATION)

\* C6 witness: a round of one pattern is over after ATTACK_DURATION +
\* GAP_BETWEEN_ATTACKS update calls
C6_Witness ==
    /\ ~am.round_active
    /\ Len(am.attack_queue) = 1
    /\ obs.calls = ATTACK_DURATION + GAP_BETWEEN_ATTACKS

\* C7: once the round is over an update call returns False and changes nothing
\* of the manager or the projectile collection, and only a start_round call
\* makes a round active again.
C7_CompleteIsTerminal ==
    [][/\ (~am.round_active /\ obs'.op = "update") => (am' = am /\ obs'.ret = FALSE)
       /\ (~am.round_active /\ am'.round_active) =>
            obs'.op \in {"start_round", "start_round_with_pattern_count"}]_vars

\* C7 witness: update was called on a completed round and returned False
C7_Witness ==
    /\ obs.op = "update"
    /\ obs.ret = FALSE
    /\ ~am.round_active
    /\ am.current_pattern_index = Len(am.attack_queue)
    /\ Len(am.attack_queue) > 0

Hazards(s) ==
    <<s.bullets_group, s.lasers, s.gravity_wells, s.cross_bullets, s.homing_blades>>

\* the call just made was the update call on which the pattern's duration expired
Expired == obs.op = "update" /\ am.in_gap /\ am.gap_timer = 0

\* C8: after the update call on which a pattern expires, after reset() and after
\* clear_bullets() the projectile collection, lasers, gravity_wells, cross_bullets
\* and homing_blades are all empty and gravity_mode is false; the expiry call runs
\* no pattern function.
C8_ClearIsImmediate ==
    /\ (Expired \/ Cleared) =>
         /\ Hazards(am) = <<<<>>, <<>>, <<>>, <<>>, <<>>>>
         /\ ~am.gravity_mode
    /\ Expired => obs.ran = <<>>

\* C8 witness: a homing_blades pattern has just expired
C8_Witness == Expired /\ am.current_pattern = "homing_blades"

\* C9: after a Battle.update in dodge mode, every sprite that was in the
\* collection when the call began has had its update() applied exactly once.
C9_UpdatedOncePerTick ==
    (obs.op = "battle_update" /\ obs.mode = "dodge") =>
        \A i \in 1..Len(am.bullets_group) :
            am.bullets_group[i].old => am.bullets_group[i].upd = 1

\* C9 on the sprites that are not homing blades
C9_OthersOncePerTick ==
    (obs.op = "battle_update" /\ obs.mode = "dodge") =>
        \A i \in 1..Len(am.bullets_group) :
            (am.bullets_group[i].old /\ am.bullets_group[i].kind # "HomingBlade")
                => am.bullets_group[i].upd = 1

\* C10: in the frames 1 .. INVULNERABILITY_TIME - 1 after a successful
\* take_damage every take_damage call returns False and leaves hp unchanged;
\* a call in frame INVULNERABILITY_TIME after it succeeds.
C10_InvulnerabilityWindow ==
    obs.op = "take_damage" =>
        /\ (obs.at \in 1..(INVULNERABILITY_TIME - 1)) =>
               (~obs.ret /\ player.hp = obs.hp)
        /\ (obs.at = INVULNERABILITY_TIME) => obs.ret

\* C10 witness: with a window of more than one frame, the call in frame
\* INVULNERABILITY_TIME after a hit succeeds
C10_Witness ==
    /\ obs.op = "take_damage" /\ obs.ret
    /\ INVULNERABILITY_TIME > 1
    /\ obs.at = INVULNERABILITY_TIME
    /\ player.hp < obs.hp

(***************************************************************************)
(* C11.  One Battle.check_collisions call lowers the player's hp by the    *)
(* enemy's attack_damage at most once, however many projectiles and active *)
(* beams touch the player; it removes at most one projectile, one that     *)
(* touched the player, and only when damage was applied; it leaves the     *)
(* other sprites, the beams and the wells as they were; and it changes     *)
(* nothing when battle_mode is not 'dodge'.                                *)
(***************************************************************************)
\* group without its i-th sprite
Without(group, i) == [j \in 1..(Len(group) - 1) |-> IF j < i THEN group[j] ELSE group[j + 1]]

C11_DamageOncePerCall ==
    [][obs'.op = "check_collisions" =>
         LET damage == battle.current_enemy.attack_damage
             player_rect == GetBattleRect(player)
             group == am.bullets_group
         IN  /\ \/ player' = player
                \/ /\ player'.hp = Max(0, player.hp - damage)
                   /\ player' = [player EXCEPT !.hp = player'.hp,
                                               !.invulnerability_timer =
                                                   INVULNERABILITY_TIME]
             /\ \/ am' = am
                \/ /\ player'.hp < player.hp
                   /\ \E i \in 1..Len(group) :
                        /\ CollideRect(RectOf(group[i]), player_rect)
                        /\ am' = [am EXCEPT !.bullets_group = Without(group, i)]
             /\ battle.battle_mode # "dodge" => player' = player /\ am' = am
    ]_vars

\* a call that found several projectiles on the player, applied the damage
\* once and removed one projectile
C11_Witness ==
    /\ obs.op = "check_collisions"
    /\ obs.mode = "dodge"
    /\ obs.touching >= 2
    /\ player.invulnerability_timer = INVULNERABILITY_TIME
    /\ player.hp = player.max_hp - battle.current_enemy.attack_damage
    /\ Cardinality({i \in 1..Len(am.bullets_group) :
                       CollideRect(RectOf(am.bullets_group[i]), GetBattleRect(player))})
         = obs.touching - 1

\* a call in which an active beam touched the player
C11_BeamWitness ==
    /\ obs.op = "check_collisions"
    /\ obs.beam
    /\ player.invulnerability_timer = INVULNERABILITY_TIME

(***************************************************************************)
(* C12.  start_safety_pause puts the battle in 'safety_pause'; the battle  *)
(* stays there for exactly SAFETY_PAUSE_DURATION Battle.update calls, the  *)
(* last of which enters 'warmup'; it stays in 'warmup' for exactly         *)
(* WARMUP_DURATION calls, the last of which enters 'dodge'.  'dodge' is    *)
(* entered from 'warmup' only and 'warmup' from 'safety_pause' only.       *)
(***************************************************************************)
C12_PhaseOrder ==
    [][LET from == battle.battle_mode
           to == battle'.battle_mode
           updated == obs'.op = "battle_update"
       IN  /\ obs'.op = "start_safety_pause" => to = "safety_pause"
           /\ to = "warmup" /\ from # "warmup" => from = "safety_pause" /\ updated
           /\ to = "dodge" /\ from # "dodge" => from = "warmup" /\ updated
           /\ updated /\ from = "safety_pause" =>
                 to = (IF obs.calls + 1 = SAFETY_PAUSE_DURATION
                       THEN "warmup" ELSE "safety_pause")
           /\ updated /\ from = "warmup" =>
                 to = (IF obs.calls + 1 = WARMUP_DURATION THEN "dodge" ELSE "warmup")
    ]_vars

\* a dodge phase entered by the last update of a warmup that followed a
\* strike in the mini-game
C12_Witness ==
    /\ battle.battle_mode = "dodge"
    /\ obs.op = "battle_update"
    /\ obs.mode = "warmup"
    /\ battle.current_enemy.hp < battle.current_enemy.max_hp

(***************************************************************************)
(* C13.  Whenever battle_mode is 'menu', 'fight_attack', 'safety_pause' or *)
(* 'warmup', the projectile group is empty and the manager holds no beams  *)
(* and no gravity wells.                                                   *)
(***************************************************************************)
C13_NoHazardsOutsideDodge ==
    battle.battle_mode \in {"menu", "fight_attack", "safety_pause", "warmup"} =>
        /\ am.bullets_group = <<>>
        /\ am.lasers = <<>>
        /\ am.gravity_wells = <<>>

\* the battle was left in the middle of a dodge phase that had hazards
C13_Witness ==
    /\ battle.battle_mode = "menu"
    /\ obs.op = "reset"
    /\ obs.mode = "dodge"
    /\ obs.hazards >= 2
    /\ HazardCount(am) = 0

(***************************************************************************)
(* C14.  A dodge phase always comes back to 'menu'.  While the round is    *)
(* active Battle.update keeps the battle in 'dodge'; the first update that *)
(* finds the round over sets battle_mode to 'menu', empties the group and  *)
(* resets the manager, so the phase lasts one tick beyond the tick on      *)
(* which round_active became false, no more.                               *)
(***************************************************************************)
C14_EndOfDodge ==
    [][obs'.op = "battle_update" /\ battle.battle_mode = "dodge" =>
         IF am.round_active
         THEN battle'.battle_mode = "dodge"
         ELSE /\ battle'.battle_mode = "menu"
              /\ am'.bullets_group = <<>>
              /\ am' = Reset(am)
    ]_vars

C14_DodgeReturnsToMenu ==
    /\ C14_EndOfDodge
    /\ (battle.battle_mode = "dodge") ~> (battle.battle_mode = "menu")

\* the update after the one that ended the round has taken the battle from
\* 'dodge' to 'menu'
C14_Witness ==
    /\ battle.battle_mode = "menu"
    /\ obs.op = "battle_update"
    /\ obs.mode = "dodge"
    /\ obs.turns = 1

(***************************************************************************)
(* C15.  After Player.apply_gravity_force the player's collision box       *)
(* (battle_x .. battle_x + battle_size, battle_y .. battle_y +             *)
(* battle_size) lies entirely inside the arena rectangle, the bounds       *)
(* handle_battle_input keeps.                                              *)
(***************************************************************************)
\* the collision box (battle_rect, whole pixels) within the bounds
\* handle_battle_input accepts
InsideArena(p) ==
    LET battle_rect == GetBattleRect(p)
    IN  /\ battle_rect.left >= box_rect.left
        /\ Right(battle_rect) <= Right(box_rect)
        /\ battle_rect.top >= box_rect.top
        /\ Bottom(battle_rect) <= Bottom(box_rect)

C15_GravityKeepsBoxInside == obs.pulled => InsideArena(player)

(***************************************************************************)
(* C16.  The damage multiplier of _process_fight_attack is 1.0 at bar      *)
(* position 0.5 and 0.2 at positions 0.0 and 1.0, and is never below 0.2.  *)
(* Stated on the position at which a strike of the mini-game was made      *)
(* (thousandths).                                                          *)
(***************************************************************************)
C16_MultiplierAtEnds ==
    obs.mode = "fight_attack" /\ obs.op = "start_safety_pause" =>
        LET position == battle.fight_bar_position
            damage_multiplier == DamageMultiplier(position)
        IN  /\ position = 500 => damage_multiplier = 1000
            /\ position \in {0, 1000} => damage_multiplier = 200
            /\ damage_multiplier >= 200

(***************************************************************************)
(* C17.  set_difficulty(v) stores max(0.5, min(v, 3.0)), so difficulty is  *)
(* always within [0.5, 3.0] (tenths: 5..30); update, the two round starts, *)
(* reset and clear_bullets leave difficulty unchanged.                     *)
(***************************************************************************)
C17_DifficultyClamped ==
    [][/\ am.difficulty \in 5..30
       /\ am'.difficulty \in 5..30
       /\ IF obs'.op = "set_difficulty"
          THEN am'.difficulty = Max(5, Min(obs'.arg, 30))
          ELSE am'.difficulty = am.difficulty
    ]_vars

\* an out-of-range argument was clamped, and the value has since come
\* through the start of a round and an update
C17_Witness ==
    /\ am.difficulty = 30
    /\ obs.op = "update"
    /\ am.round_active
    /\ am.bullets_group # <<>>

(***************************************************************************)
(* C18.  A LaserBeam only moves forward warning -> active -> done, and     *)
(* 'done' is absorbing; check_collision returns true only while the state  *)
(* is 'active'; the beam is in 'warning' until its 30th update and is      *)
(* 'active' after each of the next 15 updates but the last, which makes it *)
(* 'done': collidable on exactly 15 consecutive ticks.                     *)
(***************************************************************************)
LaserRank(state) ==
    CASE state = "warning" -> 0
      [] state = "active" -> 1
      [] state = "done" -> 2

\* C18: forward only, a hit only while active, 30 updates of warning, 15 active ticks
C18_LaserForwardOnly ==
    [][LET l == am.lasers[1]
           n == l.warning_duration
           m == l.active_duration
       IN  /\ LaserRank(l.state) <= LaserRank(am'.lasers[1].state)
           /\ LaserRank(am'.lasers[1].state) <= LaserRank(l.state) + 1
           /\ l.state = "warning" <=> obs.updates < n
           /\ l.state = "active" <=> obs.updates \in n..(n + m - 1)
           /\ l.state = "done" <=> obs.updates >= n + m
           /\ n = 30 /\ m = 15
           /\ obs'.op = "check_collision"
                => /\ obs'.ret => l.state = "active"
                   /\ obs'.ret <=> (l.state = "active" /\ obs'.touching)
    ]_vars

\* the beam hit the player on the last of its 15 active ticks
C18_Witness ==
    /\ obs.op = "check_collision"
    /\ obs.ret
    /\ obs.updates = 44
    /\ am.lasers[1].state = "active"

\* the beam is done after its 45th update and no longer hits a player it reaches
C18_DoneWitness ==
    /\ obs.op = "check_collision"
    /\ ~obs.ret
    /\ obs.touching
    /\ obs.updates = 45
    /\ am.lasers[1].state = "done"

(***************************************************************************)
(* C19.  A projectile with a kill region set is removed from the group in  *)
(* the update in which its box stops being contained in the kill region    *)
(* (the arena grown by 100 on each side), and Projectile.update never      *)
(* removes it while its box is still contained.                            *)
(***************************************************************************)
C19_RemovedOnLeaving ==
    obs.op = "update"
      => /\ obs.was
         /\ obs.removed <=> ~Contains(KillRegion, obs.moved)
         /\ ~obs.removed => /\ Len(am.bullets_group) = 1
                            /\ RectOf(am.bullets_group[1]) = obs.moved

\* a projectile removed by the update that took its box across the right or
\* bottom edge of the kill region by less than its own size
C19_Witness ==
    /\ obs.op = "update"
    /\ obs.was
    /\ obs.removed
    /\ am.bullets_group = <<>>
    /\ CollideRect(KillRegion, obs.moved)

\* a projectile that moved and stayed, its box touching the edge from inside
C19_KeptWitness ==
    /\ obs.op = "update"
    /\ ~obs.removed
    /\ Right(obs.moved) = Right(KillRegion)

(***************************************************************************)
(* C20.  In a round with the single pattern line_rain at difficulty 1.0,   *)
(* the update call number interval = int(LINE_RAIN_INTERVAL / difficulty)  *)
(* of the pattern adds exactly LINE_RAIN_BULLET_COUNT bullets to the       *)
(* group, all at y = arena top - 20 with zero horizontal velocity, and so  *)
(* does every interval-th call after it; the other calls add none.         *)
(* C20_LineRainCadence states it for every such round, and                 *)
(* C20_LineRainAlone for the rounds that drew no secondary pattern.        *)
(***************************************************************************)
\* the sprites a step appended to the group
Added == SubSeq(am'.bullets_group, Len(am.bullets_group) + 1, Len(am'.bullets_group))

\* an update call of a running line_rain pattern that executes the pattern
RainStep ==
    /\ obs'.op = "update"
    /\ am.round_active /\ ~am.in_gap
    /\ am.attack_queue = <<"line_rain">>
    /\ am.difficulty = 10
    /\ am.pattern_timer + 1 < ATTACK_DURATION

RainCadence ==
    LET interval == TruncDiv(cfg.LINE_RAIN_INTERVAL * 10, am.difficulty)
        call == am.pattern_timer + 1
    IN  /\ Len(am'.bullets_group) >= Len(am.bullets_group)
        /\ SubSeq(am'.bullets_group, 1, Len(am.bullets_group)) = am.bullets_group
        /\ Len(Added) = IF call % interval = 0 THEN LINE_RAIN_BULLET_COUNT ELSE 0
        /\ \A i \in 1..Len(Added) :
              /\ Added[i].kind = "LineBullet"
              /\ Added[i].y = box_rect.top - 20
              /\ Added[i].vx = 0

\* C20 as stated: every executing update call of such a round keeps the cadence
C20_LineRainCadence == [][RainStep => RainCadence]_vars

\* C20 for the rounds that drew no secondary pattern
C20_LineRainAlone == [][RainStep /\ am.secondary_pattern = "None" => RainCadence]_vars

\* the third spawn of a line_rain pattern that runs alone
C20_Witness ==
    /\ obs.op = "update"
    /\ am.attack_queue = <<"line_rain">>
    /\ am.secondary_pattern = "None"
    /\ am.pattern_timer = 3 * TruncDiv(cfg.LINE_RAIN_INTERVAL * 10, am.difficulty)
    /\ am.pattern_internal_timer = 0
    /\ Len(am.bullets_group) = 3 * LINE_RAIN_BULLET_COUNT

(***************************************************************************)
(* C21.  apply_force of an active well for a player closer than 10 to the  *)
(* well returns a force of the magnitude returned at distance exactly 10,  *)
(* strength * 100 / 10, so the force is bounded for every position.        *)
(* Forces are in thousandths, distances in hundredths of a pixel.          *)
(***************************************************************************)
SquaredNorm(v) == v[1] * v[1] + v[2] * v[2]

\* the call was made on an active well by a player closer than 10
NearCall ==
    /\ obs.op = "apply_force"
    /\ am.gravity_wells[1].active
    /\ obs.dx * obs.dx + obs.dy * obs.dy < 1000 * 1000

\* C21 as stated: closer than 10 the magnitude is strength * 10, to a
\* thousandth of a pixel on each component
C21_ForceAtFloor ==
    NearCall =>
       LET m == am.gravity_wells[1].strength * 10
       IN  /\ SquaredNorm(obs.force) <= m * m
           /\ SquaredNorm(obs.force) >= (m - 2) * (m - 2)

\* what apply_force does return: closer than 10 the force is strength times
\* the offset, of magnitude strength * d; no call returns more than strength * 10
C21_ForceBounded ==
    LET w == am.gravity_wells[1]
        m == w.strength * 10
        sign == IF w.repel THEN -1 ELSE 1
    IN  obs.op = "apply_force"
          => /\ SquaredNorm(obs.force) <= m * m
             /\ NearCall
                  => obs.force = <<sign * TruncDiv(w.strength * obs.dx, 100),
                                   sign * TruncDiv(w.strength * obs.dy, 100)>>

\* a call by a player closer than 10, but not on the well, pushed away
C21_NearWitness ==
    /\ NearCall
    /\ am.gravity_wells[1].repel
    /\ obs.dx > 0 /\ obs.dy < 0
    /\ obs.force[1] < 0 /\ obs.force[2] > 0
    /\ SquaredNorm(obs.force) < 4000 * 4000

(***************************************************************************)
(* C22.  When the warmup ends the round is chosen from the enemy: a boss   *)
(* in phase 1 gets a queue of length 1, a boss in phase 2 a queue of       *)
(* length 2, 3 or 4 with difficulty 1.3, any other enemy a queue of length *)
(* MOB_PATTERNS_PER_ROUND; with no enemy the battle returns to 'menu' and  *)
(* no round is started.                                                    *)
(***************************************************************************)
\* the Battle.update call that ends the warmup
WarmupEnds ==
    /\ obs'.op = "battle_update"
    /\ battle.battle_mode = "warmup"
    /\ battle'.battle_mode # "warmup"

C22_RoundFromEnemy ==
    [][WarmupEnds =>
         LET enemy == battle.current_enemy
             Started(lengths) ==
                 /\ battle'.battle_mode = "dodge"
                 /\ am'.round_active
                 /\ am'.current_pattern_index = 0
                 /\ Len(am'.attack_queue) \in lengths
         IN  IF enemy = NoEnemy
             THEN battle'.battle_mode = "menu" /\ am' = am
             ELSE IF enemy.is_boss /\ enemy.phase = 1
             THEN Started({1}) /\ am'.difficulty = am.difficulty
             ELSE IF enemy.is_boss
             THEN Started({2, 3, 4}) /\ am'.difficulty = 13
             ELSE Started({MOB_PATTERNS_PER_ROUND}) /\ am'.difficulty = am.difficulty
    ]_vars

\* a boss in its second phase began a round of three patterns
C22_Witness ==
    /\ obs.op = "battle_update"
    /\ obs.mode = "warmup"
    /\ battle.battle_mode = "dodge"
    /\ battle.current_enemy # NoEnemy
    /\ battle.current_enemy.is_boss
    /\ battle.current_enemy.phase = 2
    /\ Len(am.attack_queue) = 3
    /\ am.difficulty = 13

\* the warmup ended with no enemy set: back in the menu
C22_NoEnemyWitness ==
    /\ obs.op = "battle_update"
    /\ obs.mode = "warmup"
    /\ battle.battle_mode = "menu"
    /\ battle.current_enemy = NoEnemy

(***************************************************************************)
(* C23.  While battle_mode is 'fight_attack', Battle.update only moves the *)
(* bar: the position stays within [0, 1] (thousandths: 0..1000), the       *)
(* direction flips at the two ends and nowhere else, and the mode is not   *)
(* left.  The mode is left by a key of the mini-game only: Z, which        *)
(* resolves the attack, or X, which returns to 'menu' without damaging the *)
(* enemy and without a safety pause (and by Battle.reset, when the battle  *)
(* itself is left).                                                        *)
(***************************************************************************)
\* the battle with its bar and its phase-2 message put back as they were in b
SaveTheBar(n, b) ==
    [n EXCEPT !.fight_bar_position = b.fight_bar_position,
              !.fight_bar_direction = b.fight_bar_direction,
              !.show_phase2_message = b.show_phase2_message,
              !.phase2_message_timer = b.phase2_message_timer]

C23_CancelWitness ==
    /\ obs.op = "fight_key"
    /\ obs.mode = "fight_attack"
    /\ battle.battle_mode = "menu"
    /\ battle.fight_bar_position = 1000
    /\ battle.current_enemy.hp = battle.current_enemy.max_hp
    /\ ~battle.safety_pause_active

(***************************************************************************)
(* C24.  On every update call of a running pattern (not in a gap, the      *)
(* timer below ATTACK_DURATION after the call's increment) the function of *)
(* the primary pattern is invoked exactly once and, when secondary_pattern *)
(* is set, so is the function of the secondary pattern, whichever of the   *)
(* six basic patterns it is.                                               *)
(***************************************************************************)
C24_BothPatternsRun ==
    [][(/\ obs'.op = "update"
        /\ am.round_active /\ ~am.in_gap
        /\ am.pattern_timer + 1 < ATTACK_DURATION)
         => obs'.ran = <<am.current_pattern>>
                         \o (IF am.secondary_pattern # "None"
                             THEN <<am.secondary_pattern>> ELSE <<>>)
    ]_vars

\* the part that holds: the primary pattern runs exactly once, and a secondary
\* pattern that _execute_secondary_pattern knows runs exactly once after it
C24_DispatchedPatternsRun ==
    [][(/\ obs'.op = "update"
        /\ am.round_active /\ ~am.in_gap
        /\ am.pattern_timer + 1 < ATTACK_DURATION)
         => obs'.ran = <<am.current_pattern>>
                         \o (IF am.secondary_pattern
                                  \in {"line_rain", "circle_burst", "targeting",
                                       "bouncing_walls"}
                             THEN <<am.secondary_pattern>> ELSE <<>>)
    ]_vars

(***************************************************************************)
(* C25.  In every reachable state a secondary pattern that is set differs  *)
(* from the current pattern: no sequence of round starts and updates       *)
(* combines a pattern with itself.                                         *)
(***************************************************************************)
C25_NoSelfCombination ==
    am.secondary_pattern # "None" => am.secondary_pattern # am.current_pattern

\* a secondary pattern drawn by _next_pattern for the second pattern of a round
C25_Witness ==
    /\ obs.op = "update"
    /\ am.round_active
    /\ am.current_pattern_index = 1
    /\ am.current_pattern \in Range(BASIC_PATTERNS)
    /\ am.secondary_pattern \in Range(BASIC_PATTERNS)
    /\ am.pattern_timer > 0

(***************************************************************************)
(* C26.  In every reachable state of the manager secondary_pattern is set  *)
(* only while current_pattern is one of the six basic patterns: when the   *)
(* current pattern is complex or there is none (round complete, reset),    *)
(* secondary_pattern is None.                                              *)
(***************************************************************************)
C26_SecondaryOnlyWithBasic ==
    am.secondary_pattern # "None" => am.current_pattern \in Range(BASIC_PATTERNS)

\* what does hold: the same while a round is active, and after reset()
C26_SecondaryInActiveRound ==
    /\ am.round_active /\ am.secondary_pattern # "None"
         => am.current_pattern \in Range(BASIC_PATTERNS)
    /\ obs.op = "reset" => am.secondary_pattern = "None"

(***************************************************************************)
(* C27.  is_gravity_mode() is true only while the current pattern is       *)
(* gravity_wells and the manager is not in a gap; GameManager applies a    *)
(* gravity force to the player only in 'dodge' during a gravity_wells      *)
(* pattern, never in menu, fight_attack, safety_pause, warmup or a gap.    *)
(***************************************************************************)
\* the manager is running the pattern gravity_wells
InGravityPattern ==
    /\ am.round_active
    /\ am.current_pattern = "gravity_wells"
    /\ ~am.in_gap

\* the manager alone, under any order of calls
C27_GravityModeInPattern == IsGravityMode(am) => InGravityPattern

\* C27 on the frames of a battle
C27_GravityOnlyInDodge ==
    [][/\ IsGravityMode(am) => InGravityPattern /\ battle.battle_mode = "dodge"
       /\ obs'.op = "update_battle"
            => LET timed == UpdateInvulnerability(player)
                   unpulled == IF CanPlayerMove(battle)
                               THEN HandleBattleInput(timed, obs.keys)
                               ELSE timed
               IN  /\ obs'.pulled => InGravityPattern /\ battle.battle_mode = "dodge"
                   /\ player' # unpulled => obs'.pulled
    ]_vars

\* a frame of a gravity_wells pattern moved the player by a fraction of a pixel
C27_Witness ==
    /\ obs.op = "update_battle"
    /\ obs.pulled
    /\ obs.mode = "dodge"
    /\ player.battle_x % 1000 # 0

C28_WellExpires ==
    LET w == am.gravity_wells[1]
    IN  /\ w.active <=> w.timer < w.duration
        /\ (obs.op = "apply_force" /\ ~w.active) => obs.force = <<0, 0>>

\* apply_force called on an expired well by a player away from it
C28_ExpiredWitness ==
    /\ obs.op = "apply_force"
    /\ ~am.gravity_wells[1].active
    /\ am.gravity_wells[1].timer = am.gravity_wells[1].duration
    /\ obs.dx # 0
    /\ obs.force = <<0, 0>>


(***************************************************************************)
(* Homing blades (SpecBlade).                                              *)
(***************************************************************************)
\* the target of blade b is the point where the blade stands
TargetOnBlade(b) == b.target_x * 1000 = b.fx /\ b.target_y * 1000 = b.fy

\* C29: a homing blade whose target coincides with its own position at the
\* aiming->charging transition gets the default direction straight down
\* (vx = 0, vy > 0), so that it leaves the expanded bound once it flies.
C29_ZeroVectorFliesDown ==
    \A id \in BladeIds(am) :
        LET b == BladeOfId(am, id)
        IN  (b.state = "charging" /\ TargetOnBlade(b)) => (b.vx = 0 /\ b.vy > 0)

\* what update does at the transition: a blade aimed at another point gets a
\* velocity that is not zero, a blade aimed at itself keeps the velocity
\* (0, 0) of __init__
C29_VelocityFromTarget ==
    \A id \in BladeIds(am) :
        LET b == BladeOfId(am, id)
        IN  b.state = "charging" =>
                IF TargetOnBlade(b)
                THEN b.vx = 0 /\ b.vy = 0
                ELSE b.vx # 0 \/ b.vy # 0

\* a blade aimed at itself is flying and has been updated without moving
C29_StuckWitness ==
    \E id \in BladeIds(am) :
        LET b == BladeOfId(am, id)
        IN  /\ b.state = "flying"
            /\ b.vx = 0 /\ b.vy = 0
            /\ TargetOnBlade(b)
            /\ obs.charged[id] > 0
            /\ b.upd = 2

\* a blade aimed at itself stays in the collection until the pattern ends
C29_StuckBladeStays ==
    [][\A id \in BladeIds(am) :
          (BladeOfId(am, id).state = "flying" /\ BladeOfId(am, id).vx = 0
             /\ BladeOfId(am, id).vy = 0 /\ am'.current_pattern = "homing_blades"
             /\ ~am'.in_gap)
            => (id \in BladeIds(am') /\ BladeOfId(am', id).fx = BladeOfId(am, id).fx
                                     /\ BladeOfId(am', id).fy = BladeOfId(am, id).fy)]_vars

\* C30: a HomingBlade stays in 'aiming' for aim_duration (60) dodge ticks
\* and in 'charging' for charge_duration (15) dodge ticks.
C30_AimsSixtyTicks ==
    \A id \in BladeIds(am) :
        LET b == BladeOfId(am, id)
        IN  /\ b.state # "aiming" => obs.aimed[id] = b.aim_duration
            /\ b.state = "flying" => obs.charged[id] = b.charge_duration

\* the frames a blade does spend in each state, update() being applied to it
\* by the group and by _pattern_homing_blades in every frame
C30_FramesPerState ==
    \A id \in BladeIds(am) :
        LET b == BladeOfId(am, id)
        IN  /\ b.state # "aiming" => 2 * obs.aimed[id] = b.aim_duration
            /\ b.state = "flying" => 2 * obs.charged[id] = b.charge_duration + 1
            /\ b.upd \in {0, 2}

StateRank(state) == IF state = "aiming" THEN 1 ELSE IF state = "charging" THEN 2 ELSE 3

\* C30, the rest of the statement: a blade only moves forward through
\* aiming -> charging -> flying, its position does not change before
\* 'flying', its velocity is assigned at the aiming->charging transition
\* only and no later re-targeting changes it.
C30_ForwardOnce ==
    [][\A id \in BladeIds(am) \cap BladeIds(am') :
          LET b == BladeOfId(am, id)
              c == BladeOfId(am', id)
          IN  /\ StateRank(c.state) >= StateRank(b.state)
              /\ c.state # "flying" =>
                    (c.fx = b.fx /\ c.fy = b.fy /\ c.x = b.x /\ c.y = b.y)
              /\ c.state = "aiming" => (c.vx = 0 /\ c.vy = 0)
              /\ b.state # "aiming" =>
                    (c.vx = b.vx /\ c.vy = b.vy
                       /\ c.target_x = b.target_x /\ c.target_y = b.target_y)]_vars

\* a blade has gone through the three states and has moved
C30_FlownWitness ==
    \E id \in BladeIds(am) :
        LET b == BladeOfId(am, id)
        IN  /\ b.state = "flying"
            /\ obs.aimed[id] > 0 /\ obs.charged[id] > 0
            /\ b.fx # (b.target_x * 1000) 
            /\ (b.vx # 0 \/ b.vy # 0)


(***************************************************************************)
(* Bouncing bullets (SpecBounce).                                          *)
(***************************************************************************)
\* the box of b has an edge on the left or right (top or bottom) boundary
OnSideWall(b) == b.x = box_rect.left \/ b.x + b.w = Right(box_rect)
OnEndWall(b) == b.y = box_rect.top \/ b.y + b.h = Bottom(box_rect)

\* C31: after every BouncingBullet.update the box of the bullet lies inside
\* the arena; a box touching the left/right (top/bottom) boundary has vx
\* (vy) pointing back into the arena and one more bounce counted; the
\* bullet is removed by the update in which bounce_count reaches
\* max_bounces, so a bullet still in the group has bounce_count below it.
C31_BounceInsideArena ==
    obs.op = "update" =>
        LET b == obs.before
            c == obs.after
        IN  /\ Contains(box_rect, RectOf(c))
            /\ c.x = box_rect.left => c.vx > 0
            /\ c.x + c.w = Right(box_rect) => c.vx < 0
            /\ c.y = box_rect.top => c.vy > 0
            /\ c.y + c.h = Bottom(box_rect) => c.vy < 0
            /\ c.bounce_count = b.bounce_count + (IF OnSideWall(c) THEN 1 ELSE 0)
                                               + (IF OnEndWall(c) THEN 1 ELSE 0)
            /\ ~OnSideWall(c) => c.vx = b.vx
            /\ ~OnEndWall(c) => c.vy = b.vy
            /\ obs.removed <=> c.bounce_count >= c.max_bounces
            /\ b.bounce_count < b.max_bounces
            /\ IF obs.removed THEN am.bullets_group = <<>>
                              ELSE am.bullets_group = <<c>>

\* the update that counted the last bounce of a bullet removed it
C31_Witness ==
    /\ obs.op = "update"
    /\ obs.removed
    /\ obs.before.bounce_count = obs.before.max_bounces - 1
    /\ OnSideWall(obs.after)
    /\ obs.after.vx = -obs.before.vx

\* a bullet that reached a corner: two bounces counted by one update
C31_CornerWitness ==
    /\ obs.op = "update"
    /\ OnSideWall(obs.after) /\ OnEndWall(obs.after)
    /\ obs.after.bounce_count = obs.before.bounce_count + 2


(***************************************************************************)
(* Laser beams of the laser_warning pattern (SpecLaserWarning).            *)
(***************************************************************************)
\* the number of update() calls a beam has had
LaserAge(l) == IF l.state = "warning" THEN l.timer ELSE l.warning_duration + l.timer

\* the number of update() calls that takes a beam to 'done'
LaserLife(l) == l.warning_duration + l.active_duration

C32_PrunedWitness ==
    /\ obs.op = "update" /\ obs.ran = <<"laser_warning">>
    /\ am.pattern_timer = 105
    /\ am.lasers = <<>>


(***************************************************************************)
(* The count of attacks left (Spec).                                       *)
(***************************************************************************)
\* the update call ends a gap
EndsGap == am.in_gap /\ am.gap_timer + 1 >= GAP_BETWEEN_ATTACKS

\* C33: get_remaining_attacks() is len(attack_queue) - current_pattern_index;
\* during a round it is at least 1 and never increases, it decreases by
\* exactly one on the update call that ends a gap, and it is 0 exactly when
\* no round is active (after completion or reset).
C33_RemainingAttacks ==
    /\ [](/\ GetRemainingAttacks(am) \in 0..Len(am.attack_queue)
          /\ GetRemainingAttacks(am) + am.current_pattern_index = Len(am.attack_queue)
          /\ am.round_active => GetRemainingAttacks(am) >= 1
          /\ GetRemainingAttacks(am) = 0 <=> ~am.round_active)
    /\ [][/\ IsUpdateStep =>
               GetRemainingAttacks(am') =
                   GetRemainingAttacks(am) - (IF EndsGap THEN 1 ELSE 0)
          /\ obs'.op = "clear_bullets" =>
               GetRemainingAttacks(am') = GetRemainingAttacks(am)
          /\ obs'.op = "reset" => GetRemainingAttacks(am') = 0]_vars

\* an update call has ended the first gap of a round of two patterns: one left
C33_Witness ==
    /\ obs.op = "update"
    /\ am.round_active
    /\ Len(am.attack_queue) = 2
    /\ am.pattern_timer = 0
    /\ GetRemainingAttacks(am) = 1

\* an update call has completed a round: none left
C33_DoneWitness ==
    /\ obs.op = "update"
    /\ ~am.round_active
    /\ am.attack_queue # <<>>
    /\ GetRemainingAttacks(am) = 0

(***************************************************************************)
(* Properties of the keys and frames of a battle.                          *)
(***************************************************************************)
\* the values handle_input returns for the menu
MenuActions ==
    {"item", "act_menu", "check", "talk", "spare", "mercy_fail", "item_menu", "back"}

\* the values handle_input returns for the mini-game
FightActions == {"fight_damage", "enemy_killed", "fight_cancel"}

IsKeyStep == obs'.op = "key" /\ obs.state = "battle"

IsFrameStep == obs'.op = "update" /\ obs.state = "battle"

\* C34: a key pressed in 'safety_pause', 'warmup' or 'dodge' returns None and
\* changes nothing of the battle, the manager, the player or the game state;
\* a menu action is returned only for a key pressed in 'menu', a result of the
\* mini-game only in 'fight_attack', and a key changes the menu's selection
\* only in 'menu'; a frame changes the player's battle position only when it
\* began in 'dodge' or 'warmup'.
C34_KeysAndMovementByMode ==
    [][/\ IsKeyStep /\ battle.battle_mode \in {"safety_pause", "warmup", "dodge"}
          => /\ obs'.ret = "None"
             /\ battle' = battle /\ am' = am /\ player' = player
             /\ obs'.state = "battle"
       /\ IsKeyStep /\ obs'.ret \in MenuActions => battle.battle_mode = "menu"
       /\ IsKeyStep /\ obs'.ret \in FightActions => battle.battle_mode = "fight_attack"
       /\ IsKeyStep => obs'.ret \in MenuActions \cup FightActions \cup {"None"}
       /\ IsKeyStep /\ battle'.ui # battle.ui => battle.battle_mode = "menu"
       /\ IsKeyStep => GetBattlePosition(player') = GetBattlePosition(player)
       /\ IsFrameStep /\ GetBattlePosition(player') # GetBattlePosition(player)
          => battle.battle_mode \in {"dodge", "warmup"}
       /\ IsFrameStep /\ battle.battle_mode \in {"menu", "fight_attack", "safety_pause"}
          => GetBattlePosition(player') = GetBattlePosition(player)]_vars

\* a key was pressed in the dodge phase of a battle with bullets in the arena
C34_Witness ==
    /\ obs.op = "key" /\ obs.was = "battle" /\ obs.mode = "dodge"
    /\ obs.ret = "None"
    /\ am.bullets_group # <<>>

\* a frame of the warmup moved the player away from the centre of the arena
C34_MovedWitness ==
    /\ obs.op = "update" /\ obs.mode = "warmup"
    /\ GetBattlePosition(player) # GetBattlePosition(ResetBattleState(SetBattleBox(NewPlayer)))

\* a frame of the menu after the dodge phase: the player is still where the
\* dodge phase left it
C34_HeldInMenuWitness ==
    /\ obs.op = "update" /\ obs.mode = "menu" /\ obs.turns = MaxTurns
    /\ GetBattlePosition(player) # GetBattlePosition(ResetBattleState(SetBattleBox(NewPlayer)))

\* C35: MERCY returns 'spare' only for an enemy whose is_sparable is true, and
\* the battle then ends in the overworld; for any other enemy it returns
\* 'mercy_fail' and the step changes nothing; no key ends the battle but the
\* one that spares; an enemy enters the battle with is_sparable false, and the
\* flag becomes true only on the step of the Talk action.
C35_SpareOnlyAfterTalk ==
    [][/\ IsKeyStep /\ obs'.ret = "spare"
          => /\ battle.battle_mode = "menu"
             /\ battle.current_enemy # NoEnemy
             /\ battle.current_enemy.is_sparable
             /\ battle.ui.mercy_spare
             /\ obs'.state = "overworld"
       /\ IsKeyStep /\ obs'.ret = "mercy_fail"
          => /\ ~battle.current_enemy.is_sparable
             /\ battle' = battle /\ am' = am /\ player' = player
             /\ obs'.state = "battle"
       /\ IsKeyStep /\ obs'.state = "overworld" => obs'.ret = "spare"
       /\ battle'.current_enemy.is_sparable /\ ~battle.current_enemy.is_sparable
          => IsKeyStep /\ obs'.ret = "talk" /\ battle.battle_mode = "menu"
       /\ obs'.op = "switch_to_battle"
          => ~battle'.current_enemy.is_sparable /\ ~battle'.ui.mercy_spare]_vars

\* an enemy that was talked to has been spared: the game is in the overworld
C35_Witness ==
    /\ obs.op = "key" /\ obs.ret = "spare"
    /\ obs.was = "battle" /\ obs.state = "overworld"
    /\ battle.current_enemy.is_sparable

\* MERCY was chosen for an enemy never talked to: the battle goes on
C35_FailWitness ==
    /\ obs.op = "key" /\ obs.ret = "mercy_fail"
    /\ obs.state = "battle" /\ battle.battle_mode = "menu"
    /\ ~battle.current_enemy.is_sparable

(***************************************************************************)
(* The player's hit points under take_damage, heal and use_item called in  *)
(* any order.  obs holds the last call, its argument, its return value and *)
(* the hit points before it.                                               *)
(***************************************************************************)
\* the damage of a hit: the defaults, one point, more than the player has
HpDamages == {1, MOB_ATTACK_DAMAGE, BOSS_ATTACK_DAMAGE, PLAYER_MAX_HP + 5}

\* the amounts passed to heal
HealAmounts == {0, 1} \cup HealValues

HpCalled(op, arg, ret, before) ==
    [op |-> op, arg |-> arg, ret |-> ret, before |-> before]

\* the state after Player.__init__
InitHp ==
    /\ cfg = ShortCfg
    /\ am \in {Reset(a) : a \in NewAttackManager}
    /\ battle = NoBattle
    /\ player = NewPlayer
    /\ obs = HpCalled("init", 0, 0, player.hp)

\* an item picked up
DoHpAddItem ==
    /\ Len(player.inventory) < MaxItems
    /\ \E h \in HealValues :
         /\ player' = AddItem(player, ItemEntry(h))
         /\ obs' = HpCalled("add_item", h, 0, player.hp)
    /\ UNCHANGED <<cfg, am, battle>>

\* update_invulnerability at the head of a frame
DoHpUpdateInvulnerability ==
    /\ player' = UpdateInvulnerability(player)
    /\ obs' = HpCalled("update_invulnerability", 0, 0, player.hp)
    /\ UNCHANGED <<cfg, am, battle>>

DoHpTakeDamage ==
    /\ \E damage \in HpDamages :
         LET r == TakeDamage(player, damage)
         IN  /\ player' = r.p
             /\ obs' = HpCalled("take_damage", damage, IF r.ret THEN 1 ELSE 0, player.hp)
    /\ UNCHANGED <<cfg, am, battle>>

DoHpHeal ==
    /\ \E amount \in HealAmounts :
         LET r == Heal(player, amount)
         IN  /\ player' = r.player
             /\ obs' = HpCalled("heal", amount, r.ret, player.hp)
    /\ UNCHANGED <<cfg, am, battle>>

DoHpUseItem ==
    /\ \E index \in 0..MaxItems :
         LET r == UseItem(player, index)
         IN  /\ player' = r.player
             /\ obs' = HpCalled("use_item",
                                IF r.used THEN player.inventory[index + 1].heal_value
                                ELSE 0,
                                IF r.used THEN 1 ELSE 0, player.hp)
    /\ UNCHANGED <<cfg, am, battle>>

NextHp ==
    \/ DoHpAddItem
    \/ DoHpUpdateInvulnerability
    \/ DoHpTakeDamage
    \/ DoHpHeal
    \/ DoHpUseItem

SpecHp == InitHp /\ [][NextHp]_vars

\* the hit points stay within 0..max_hp under any order of the calls:
\* take_damage stops at 0, heal and use_item stop at max_hp, and heal returns
\* the points it restored
C36_HpInRange ==
    /\ player.hp \in 0..player.max_hp
    /\ obs.before \in 0..player.max_hp
    /\ obs.op = "take_damage" /\ obs.ret = 1 => player.hp = Max(0, obs.before - obs.arg)
    /\ obs.op = "take_damage" /\ obs.ret = 0 => player.hp = obs.before
    /\ obs.op = "heal"
       => /\ player.hp = Min(player.max_hp, obs.before + obs.arg)
          /\ obs.ret = player.hp - obs.before
    /\ obs.op = "use_item" /\ obs.ret = 1
       => player.hp = Min(player.max_hp, obs.before + obs.arg)
    /\ obs.op = "use_item" /\ obs.ret = 0 => player.hp = obs.before

\* a hit that took more than the player had left 0
C36_FloorWitness ==
    /\ obs.op = "take_damage" /\ obs.ret = 1
    /\ obs.arg > obs.before /\ player.hp = 0

\* an item that restores more than was lost left max_hp
C36_CeilingWitness ==
    /\ obs.op = "use_item" /\ obs.ret = 1
    /\ obs.before < player.max_hp /\ obs.before + obs.arg > player.max_hp
    /\ player.hp = player.max_hp

\* C36: in the game the hit points are within 0..max_hp, above 0 while the
\* state is the battle and 0 on the game over screen; the frame that leaves
\* the player with 0 hit points leaves the game over state; in that state no
\* frame is run, a key other than the restart keys changes nothing, and a
\* restart leads to the overworld with the hit points restored and the battle
\* reset.
C36_GameOverAtZero ==
    /\ [](/\ player.hp \in 0..player.max_hp
          /\ obs.state = "battle" => player.hp > 0
          /\ obs.state = "game_over" => player.hp = 0)
    /\ [][/\ IsFrameStep /\ player'.hp = 0 => obs'.state = "game_over"
          /\ IsFrameStep /\ player'.hp < player.hp => battle.battle_mode = "dodge"
          /\ obs.state = "game_over"
             => /\ obs'.op = "key"
                /\ \/ /\ obs'.state = "game_over"
                      /\ battle' = battle /\ am' = am /\ player' = player
                   \/ /\ obs'.state = "overworld"
                      /\ player'.hp = player'.max_hp
                      /\ battle'.battle_mode = "menu"
                      /\ am'.bullets_group = <<>>]_vars

\* the frame in which the hit points reached 0 ended in the game over state
C36_Witness ==
    /\ obs.op = "update" /\ obs.was = "battle" /\ obs.state = "game_over"
    /\ player.hp = 0

\* a key on the game over screen that is not a restart key
C36_IgnoredKeyWitness ==
    /\ obs.op = "key" /\ obs.was = "game_over" /\ obs.state = "game_over"
    /\ player.hp = 0 /\ am.bullets_group # <<>>

\* a restart from the game over screen
C36_RestartWitness ==
    /\ obs.op = "key" /\ obs.was = "game_over" /\ obs.state = "overworld"
    /\ player.hp = player.max_hp

(***************************************************************************)
(* One enemy under take_damage.  obs holds the enemy before the last call, *)
(* the damage passed and the value returned.                               *)
(***************************************************************************)
\* the enemies of the map, and a boss and a mob made with an odd hp
HitEnemies ==
    {Enemy(FALSE), Enemy(TRUE),
     [Enemy(TRUE) EXCEPT !.max_hp = 7, !.hp = 7],
     [Enemy(FALSE) EXCEPT !.max_hp = 3, !.hp = 3]}

\* the damage of _process_fight_attack, from nothing to the full attack, and
\* more than any enemy has
HitDamages == 0..PLAYER_ATTACK_DAMAGE \cup {BOSS_HP + 1}

EnemyCalled(op, before, damage, ret) ==
    [op |-> op, before |-> before, damage |-> damage, ret |-> ret]

\* Enemy.__init__, the enemy handed to the battle
InitEnemy ==
    /\ cfg = ShortCfg
    /\ am \in {Reset(a) : a \in NewAttackManager}
    /\ \E e \in HitEnemies : battle = SetEnemy(NewBattle, e)
    /\ player = NoPlayer
    /\ obs = EnemyCalled("init", battle.current_enemy, 0, FALSE)

\* current_enemy.take_damage(damage)
DoEnemyTakeDamage ==
    /\ \E damage \in HitDamages :
         LET r == EnemyTakeDamage(battle.current_enemy, damage)
         IN  /\ battle' = [battle EXCEPT !.current_enemy = r.e]
             /\ obs' = EnemyCalled("take_damage", battle.current_enemy, damage, r.ret)
    /\ UNCHANGED <<cfg, am, player>>

NextEnemy == DoEnemyTakeDamage

SpecEnemy == InitEnemy /\ [][NextEnemy]_vars

\* hp at most max_hp * BOSS_PHASE2_THRESHOLD
AtThreshold(e) == e.hp * 1000 <= e.max_hp * BOSS_PHASE2_THRESHOLD

\* C37: the hit points of an enemy stay within 0..max_hp; the phase is 1 or
\* 2; a boss is in phase 2 exactly when its hit points are at most
\* max_hp * BOSS_PHASE2_THRESHOLD, so the phase changed on the call that
\* brought them there; a take_damage call takes the damage off down to 0,
\* returns whether 0 is reached, and never lowers the phase; any other enemy
\* stays in phase 1.
C37_EnemyHpAndPhase ==
    /\ [](LET e == battle.current_enemy
          IN  /\ e.hp \in 0..e.max_hp
              /\ e.phase \in {1, 2}
              /\ e.is_boss => (e.phase = 2 <=> AtThreshold(e))
              /\ ~e.is_boss => e.phase = 1 /\ ~e.phase2_triggered
              /\ e.phase2_triggered => e.phase = 2)
    /\ [][LET e == battle.current_enemy
              f == battle'.current_enemy
          IN  /\ f.hp = Max(0, e.hp - obs'.damage)
              /\ obs'.ret = (f.hp = 0)
              /\ f.phase >= e.phase
              /\ f.phase # e.phase
                 => /\ e.is_boss /\ e.phase = 1 /\ f.phase = 2
                    /\ ~AtThreshold(e) /\ AtThreshold(f)
                    /\ f.phase2_triggered
              /\ f.max_hp = e.max_hp /\ f.is_boss = e.is_boss]_vars

\* the call that took a boss from phase 1 to phase 2
C37_Witness ==
    /\ obs.op = "take_damage"
    /\ obs.before.is_boss /\ obs.before.phase = 1
    /\ battle.current_enemy.phase = 2
    /\ battle.current_enemy.hp > 0

\* a boss hit again in phase 2
C37_StaysWitness ==
    /\ obs.op = "take_damage" /\ obs.damage > 0
    /\ obs.before.is_boss /\ obs.before.phase = 2
    /\ battle.current_enemy.phase = 2

\* an enemy that is no boss, at half of its hit points or less, in phase 1
C37_MobWitness ==
    /\ obs.op = "take_damage"
    /\ ~battle.current_enemy.is_boss
    /\ AtThreshold(battle.current_enemy)
    /\ battle.current_enemy.phase = 1

\* the number of the bar's place on its way up and down the scale: 0 at the
\* start, one more per tick
BarPhase(b) ==
    IF b.fight_bar_direction = 1
    THEN b.fight_bar_position \div b.fight_bar_speed
    ELSE 1000 \div b.fight_bar_speed + 1
           + (1000 - b.fight_bar_position) \div b.fight_bar_speed

\* the ticks after which the bar is back at 0.0 going up
BarPeriod(b) == 2 * (1000 \div b.fight_bar_speed + 1)

\* C38: the bar of the mini-game is always a whole number of steps of 0.03
\* above 0.0 on its way up and below 1.0 on its way down, each tick of the
\* mini-game takes it to the next place of a cycle of 68 ticks, and it is
\* never at 0.5: the multiplier stays below 1.0 and the damage below
\* PLAYER_ATTACK_DAMAGE.
C38_BarMissesCentre ==
    /\ [](/\ battle.fight_bar_position \in 0..1000
          /\ battle.fight_bar_direction \in {1, -1}
          /\ battle.fight_bar_direction = 1
             => battle.fight_bar_position % battle.fight_bar_speed = 0
          /\ battle.fight_bar_direction = -1
             => (1000 - battle.fight_bar_position) % battle.fight_bar_speed = 0
          /\ battle.fight_bar_position # 500
          /\ DamageMultiplier(battle.fight_bar_position) < 1000
          /\ TruncDiv(PLAYER_ATTACK_DAMAGE
                        * DamageMultiplier(battle.fight_bar_position), 1000)
               < PLAYER_ATTACK_DAMAGE)
    /\ [][/\ obs'.op = "battle_update" /\ battle.battle_mode = "fight_attack"
             => BarPhase(battle') = (BarPhase(battle) + 1) % BarPeriod(battle)
          /\ obs'.op = "fight" => BarPhase(battle') = 0
          /\ battle.battle_mode = "fight_attack" /\ battle.current_enemy.hp > 0
             /\ battle'.current_enemy.hp < battle.current_enemy.hp
             => battle.current_enemy.hp - battle'.current_enemy.hp
                  < PLAYER_ATTACK_DAMAGE]_vars

\* the bar on its way up, at the place next to the centre
C38_Witness ==
    /\ battle.battle_mode = "fight_attack"
    /\ battle.fight_bar_direction = 1
    /\ battle.fight_bar_position = 510

\* the bar on its way down, past the centre
C38_DownWitness ==
    /\ battle.battle_mode = "fight_attack"
    /\ battle.fight_bar_direction = -1
    /\ battle.fight_bar_position = 490

\* the key pressed next to the centre: one point short of the full damage
C38_StrikeWitness ==
    /\ obs.op = "start_safety_pause" /\ obs.mode = "fight_attack"
    /\ battle.fight_bar_position = 510
    /\ battle.current_enemy.hp = battle.current_enemy.max_hp - (PLAYER_ATTACK_DAMAGE - 1)

(***************************************************************************)
(* The main menu.  obs holds the menu, the last call with its key and its  *)
(* return value, and the selection before the call.                        *)
(***************************************************************************)
\* the names of the items, settings of core/settings.py
TITLE_MENU_NEW_GAME == "New Game"

TITLE_MENU_CONTINUE == "Continue"

TITLE_MENU_QUIT == "Quit"

\* MainMenu.menu_items
menu_items == <<TITLE_MENU_NEW_GAME, TITLE_MENU_CONTINUE, TITLE_MENU_QUIT>>

\* MainMenu.__init__
NewMainMenu == [selected_index |-> 0, has_save |-> FALSE, animation_timer |-> 0]

\* MainMenu.check_save
CheckSave(m, has_saved_game) == [m EXCEPT !.has_save = has_saved_game]

\* MainMenu._is_item_available
IsItemAvailable(m, item) == IF item = TITLE_MENU_CONTINUE THEN m.has_save ELSE TRUE

\* MainMenu._get_available_items
GetAvailableItems(m) == SelectSeq(menu_items, LAMBDA item : IsItemAvailable(m, item))

\* menu_items.index(item)
ItemIndex(item) == (CHOOSE i \in 1..Len(menu_items) : menu_items[i] = item) - 1

\* the first value of a for loop over the ascending or descending range that
\* meets the test
FirstOf(hits, ascending) ==
    IF ascending
    THEN CHOOSE i \in hits : \A j \in hits : i <= j
    ELSE CHOOSE i \in hits : \A j \in hits : i >= j

\* MainMenu.handle_input: the menu it leaves and the value returned
MainMenuHandleInput(m, key) ==
    LET available_items == GetAvailableItems(m)
        current_item == IF m.selected_index < Len(available_items)
                        THEN available_items[m.selected_index + 1]
                        ELSE available_items[1]
        current_idx == ItemIndex(current_item)
        n == Len(menu_items)
        ItemAt(i) == menu_items[((current_idx + i) % n) + 1]
        Found(range, ascending) ==
            LET hits == {i \in range : IsItemAvailable(m, ItemAt(i))}
            IN  IF hits = {} THEN m
                ELSE [m EXCEPT !.selected_index = ItemIndex(ItemAt(FirstOf(hits, ascending)))]
    IN  IF key = "up" THEN [menu |-> Found(0..(n - 1), FALSE), ret |-> "None"]
        ELSE IF key = "down" THEN [menu |-> Found(1..n, TRUE), ret |-> "None"]
        ELSE IF key \in {"z", "return"}
        THEN LET selected_item == menu_items[m.selected_index + 1]
             IN  [menu |-> m,
                  ret |-> IF IsItemAvailable(m, selected_item) THEN selected_item
                          ELSE "None"]
        ELSE [menu |-> m, ret |-> "None"]

\* MainMenu.update
MainMenuUpdate(m) == [m EXCEPT !.animation_timer = @ + 1]

\* MainMenu.reset
MainMenuReset(m) == [m EXCEPT !.selected_index = 0]

MainMenuKeys == {"up", "down", "z", "return", "other"}

MainMenuSeen(op, key, ret, before, menu) ==
    [op |-> op, key |-> key, ret |-> ret, before |-> before, menu |-> menu]

\* GameManager.__init__: the menu after check_save, with and without a save
InitMainMenu ==
    /\ cfg = ShortCfg
    /\ am \in {Reset(a) : a \in NewAttackManager}
    /\ battle = NoBattle
    /\ player = NoPlayer
    /\ \E has_saved_game \in BOOLEAN :
         obs = MainMenuSeen("init", "other", "None", 0, CheckSave(NewMainMenu, has_saved_game))

\* a KEYDOWN in the main menu
DoMainMenuKey ==
    /\ \E key \in MainMenuKeys :
         LET r == MainMenuHandleInput(obs.menu, key)
         IN  obs' = MainMenuSeen("key", key, r.ret, obs.menu.selected_index, r.menu)
    /\ UNCHANGED <<cfg, am, battle, player>>

\* GameManager.update in the main menu
DoMainMenuUpdate ==
    /\ obs.menu.animation_timer < MaxAnimation
    /\ obs' = MainMenuSeen("update", "other", "None", obs.menu.selected_index,
                       MainMenuUpdate(obs.menu))
    /\ UNCHANGED <<cfg, am, battle, player>>

\* GameManager._return_to_main_menu after a game: reset, then check_save; a
\* save is never deleted and may have been written
DoReturnToMainMenu ==
    /\ \E has_saved_game \in {obs.menu.has_save, TRUE} :
         obs' = MainMenuSeen("return", "other", "None", obs.menu.selected_index,
                         CheckSave(MainMenuReset(obs.menu), has_saved_game))
    /\ UNCHANGED <<cfg, am, battle, player>>

NextMainMenu == DoMainMenuKey \/ DoMainMenuUpdate \/ DoReturnToMainMenu

SpecMainMenu == InitMainMenu /\ [][NextMainMenu]_vars

(***************************************************************************)
(* Properties of the main menu.                                            *)
(***************************************************************************)
\* the indices of the items that can be chosen
AvailableIndices(m) ==
    {i \in 0..(Len(menu_items) - 1) : IsItemAvailable(m, menu_items[i + 1])}

\* the available item after the selected one, the first one after the last
NextAvailableIndex(m) ==
    LET later == {i \in AvailableIndices(m) : i > m.selected_index}
    IN  FirstOf(IF later # {} THEN later ELSE AvailableIndices(m), TRUE)

\* the available item before the selected one, the last one before the first
PreviousAvailableIndex(m) ==
    LET earlier == {i \in AvailableIndices(m) : i < m.selected_index}
    IN  FirstOf(IF earlier # {} THEN earlier ELSE AvailableIndices(m), FALSE)

IsMenuKey(key) == obs'.op = "key" /\ obs'.key = key

\* C39: with and without a save, DOWN selects the next available item and UP
\* the previous one, cyclically.
C39_CyclicNavigation ==
    [][/\ IsMenuKey("down")
          => obs'.menu.selected_index = NextAvailableIndex(obs.menu)
       /\ IsMenuKey("up")
          => obs'.menu.selected_index = PreviousAvailableIndex(obs.menu)]_vars

\* the selected item is always an available one, Z and RETURN return it, and
\* no other key returns anything
C39_SelectedAvailable ==
    /\ obs.menu.selected_index \in AvailableIndices(obs.menu)
    /\ obs.op = "key" /\ obs.key \in {"z", "return"}
       => obs.ret = menu_items[obs.menu.selected_index + 1]
    /\ obs.op # "key" \/ obs.key \notin {"z", "return"} => obs.ret = "None"

\* with a save the three items follow each other cyclically; without one DOWN
\* and UP lead from New Game to Quit, and from Quit back to Quit
C39_NavigationAsCoded ==
    [][/\ IsMenuKey("down") /\ obs.menu.has_save
          => obs'.menu.selected_index = (obs.menu.selected_index + 1) % 3
       /\ IsMenuKey("up") /\ obs.menu.has_save
          => obs'.menu.selected_index = (obs.menu.selected_index + 2) % 3
       /\ (IsMenuKey("down") \/ IsMenuKey("up")) /\ ~obs.menu.has_save
          => obs'.menu.selected_index = 2
       /\ obs'.op = "key"
          => /\ obs'.menu.has_save = obs.menu.has_save
             /\ obs'.menu.animation_timer = obs.menu.animation_timer
       /\ obs'.op = "key" /\ obs'.key \notin {"up", "down"}
          => obs'.menu.selected_index = obs.menu.selected_index]_vars

\* without a save, DOWN was pressed on Quit and the selection is still Quit
C39_StuckWitness ==
    /\ obs.op = "key" /\ obs.key = "down"
    /\ ~obs.menu.has_save
    /\ obs.before = 2 /\ obs.menu.selected_index = 2

\* with a save, DOWN on Quit selected New Game
C39_WrapWitness ==
    /\ obs.op = "key" /\ obs.key = "down"
    /\ obs.menu.has_save
    /\ obs.before = 2 /\ obs.menu.selected_index = 0

\* without a save, once Quit is selected no key press selects another item
C39_NewGameLost ==
    [][~obs.menu.has_save /\ obs.menu.selected_index = 2 /\ obs'.op = "key"
       => obs'.menu.selected_index = 2]_vars

====
